---- MODULE Spec2Model ----
(***************************************************************************)
(* Product catalog HTTP API: handlers, services, error mapper and the      *)
(* relational store adapter (categories, products, product variants).     *)
(*                                                                         *)
(* Representation                                                          *)
(*  - a Go string that is only compared is a TLA+ string; a raw query      *)
(*    parameter that is parsed is a sequence of one-character strings;     *)
(*  - a Go pointer that may be nil (to Category, decimal.Decimal) is a    *)
(*    sequence of length 0 (nil) or 1;                                     *)
(*  - a decimal.Decimal is [coef, exp] with value coef * 10^exp;           *)
(*  - a float64 is the number of hundredths it denotes (exact on the       *)
(*    decimal(10,2) columns and on the short parameters used here);        *)
(*  - an error is [name, text]: name is the identity errors.Is compares,   *)
(*    text is what Error() returns. The program never wraps an error.      *)
(*                                                                         *)
(* State: the three tables; the request being served, its response and    *)
(* the X-Request-ID header of the response (hdr); trace, the calls the     *)
(* request made on its way down; created, the pairs answered 201 so far;   *)
(* procs, the requests in flight when several are served at once.          *)
(* A request reaches a handler either directly, as in the handler and      *)
(* end-to-end tests, or through the production server of main.             *)
(***************************************************************************)
EXTENDS Integers, Sequences, FiniteSets, TLC

VARIABLES categories, products, variants, req, resp, hdr, trace, created,
          procs

vars ==
    <<categories, products, variants, req, resp, hdr, trace, created, procs>>

(***************************************************************************)
(* Bounds                                                                  *)
(***************************************************************************)
\* rows the categories table may hold before creation requests stop
MaxCategories == 3

\* requests in flight at the same time
MaxRequests == 2

(***************************************************************************)
(* Generic helpers                                                         *)
(***************************************************************************)
Nil == <<>>

Ptr(x) == <<x>>

RECURSIVE Pow10(_)
Pow10(n) == IF n <= 0 THEN 1 ELSE 10 * Pow10(n - 1)

Min2(a, b) == IF a < b THEN a ELSE b

\* every ordering of the elements of a sequence
Orderings(s) ==
    { [i \in 1..Len(s) |-> s[p[i]]] : p \in Permutations(1..Len(s)) }

\* OFFSET off LIMIT lim applied to an ordered result (lim >= 0, off >= 0)
Page(s, off, lim) ==
    LET first == off + 1
        last  == Min2(Len(s), off + lim)
    IN  IF first > last THEN <<>> ELSE SubSeq(s, first, last)

\* all sub-sequences of s that keep the order of s
RECURSIVE SubSeqs(_)
SubSeqs(s) ==
    IF s = <<>> THEN { <<>> }
    ELSE LET rest == SubSeqs(Tail(s))
         IN  rest \cup { <<Head(s)>> \o r : r \in rest }

(***************************************************************************)
(* decimal.Decimal                                                         *)
(***************************************************************************)
Dec(coef, exp) == [coef |-> coef, exp |-> exp]

\* value of d in units of 10^scale (scale <= d.exp)
DecScaled(d, scale) == d.coef * Pow10(d.exp - scale)

DecLessThan(a, b) ==
    LET m == Min2(a.exp, b.exp) IN DecScaled(a, m) < DecScaled(b, m)

DecIsNegative(d) == d.coef < 0

\* Decimal.InexactFloat64: the float64 nearest to the decimal, as hundredths
InexactFloat64(d) ==
    IF d.exp >= -2 THEN d.coef * Pow10(d.exp + 2)
    ELSE d.coef \div Pow10(-2 - d.exp)

(***************************************************************************)
(* strconv.Atoi and decimal.NewFromString on character sequences           *)
(***************************************************************************)
DigitChars == {"0", "1", "2", "3", "4", "5", "6", "7", "8", "9"}

DigitVal(c) ==
    CASE c = "0" -> 0 [] c = "1" -> 1 [] c = "2" -> 2 [] c = "3" -> 3
      [] c = "4" -> 4 [] c = "5" -> 5 [] c = "6" -> 6 [] c = "7" -> 7
      [] c = "8" -> 8 [] c = "9" -> 9

RECURSIVE DigitsVal(_)
DigitsVal(s) ==
    IF s = <<>> THEN 0
    ELSE 10 * DigitsVal(SubSeq(s, 1, Len(s) - 1)) + DigitVal(s[Len(s)])

AllDigits(s) == \A i \in 1..Len(s) : s[i] \in DigitChars

Signed(s) == s # <<>> /\ Head(s) \in {"+", "-"}

Unsigned(s) == IF Signed(s) THEN Tail(s) ELSE s

SignOf(s) == IF Signed(s) /\ Head(s) = "-" THEN -1 ELSE 1

\* strconv.Atoi: optional sign, then one or more decimal digits
Atoi(s) ==
    LET body == Unsigned(s)
    IN  IF body # <<>> /\ AllDigits(body)
        THEN [ok |-> TRUE, v |-> SignOf(s) * DigitsVal(body)]
        ELSE [ok |-> FALSE, v |-> 0]

\* decimal.NewFromString without exponent notation: optional sign, digits
\* with at most one '.', at least one digit over both sides of the point
NewFromString(s) ==
    LET body   == Unsigned(s)
        dots   == { i \in 1..Len(body) : body[i] = "." }
        digits == SelectSeq(body, LAMBDA c : c # ".")
        frac   == IF dots = {} THEN 0
                  ELSE Len(body) - (CHOOSE i \in dots : TRUE)
    IN  IF Cardinality(dots) <= 1 /\ digits # <<>> /\ AllDigits(digits)
        THEN [ok |-> TRUE, d |-> Dec(SignOf(s) * DigitsVal(digits), -frac)]
        ELSE [ok |-> FALSE, d |-> Dec(0, 0)]

(***************************************************************************)
(* Errors                                                                  *)
(***************************************************************************)
Err(name, text) == [name |-> name, text |-> text]

NoError == Err("nil", "")

ErrNotFound == Err("ErrNotFound", "resource not found")

ErrInvalidInput == Err("ErrInvalidInput", "invalid input")

ErrInvalidOffset ==
    Err("ErrInvalidOffset", "offset must be a non-negative integer")

ErrInvalidLimit == Err("ErrInvalidLimit", "limit must be a positive integer")

ErrInvalidPrice ==
    Err("ErrInvalidPrice", "priceLessThan must be a valid decimal number")

ErrNegativePrice ==
    Err("ErrNegativePrice", "priceLessThan must be a non-negative value")

ErrInvalidCategoryInput ==
    Err("ErrInvalidCategoryInput", "category code and name are required")

\* gorm.ErrRecordNotFound
ErrRecordNotFound == Err("gorm.ErrRecordNotFound", "record not found")

\* errors the database driver raises: lost connection, unique violation
ErrConnection == Err("driver.conn", "database connection failed")

ErrDuplicateKey == Err("driver.23505", "duplicate key violation")

\* an error built on the spot with errors.New, as the tests do
ErrAdHoc == Err("errors.New", "some internal error")

DomainErrors ==
    { ErrInvalidOffset, ErrInvalidLimit, ErrInvalidPrice, ErrNegativePrice,
      ErrInvalidCategoryInput, ErrInvalidInput, ErrNotFound }

StoreErrors == { ErrRecordNotFound, ErrConnection, ErrDuplicateKey }

AllErrors == DomainErrors \cup StoreErrors \cup { ErrAdHoc }

\* errors.Is on errors that wrap nothing
ErrorsIs(err, target) == err.name = target.name

(***************************************************************************)
(* HTTP responses                                                          *)
(***************************************************************************)
StatusOK == 200

StatusCreated == 201

StatusBadRequest == 400

StatusNotFound == 404

StatusInternalServerError == 500

ErrCodeInvalidInput == "invalid_input"

ErrCodeNotFound == "not_found"

ErrCodeInternal == "internal_error"

\* nothing written to the ResponseWriter yet
BlankResponse ==
    [status |-> 0, code |-> "", message |-> "", kind |-> "none",
     products |-> <<>>, total |-> 0, detail |-> Nil,
     categories |-> <<>>, category |-> Nil, params |-> Nil]

\* ErrorResponseBody{Code, Message} written with the given status
ErrorResponseBody(status, code, message) ==
    [BlankResponse EXCEPT !.status = status, !.code = code,
                          !.message = message, !.kind = "error"]

OKResponse(data) == data @@ [BlankResponse EXCEPT !.status = StatusOK]

CreatedResponse(data) == data @@ [BlankResponse EXCEPT !.status = StatusCreated]

\* a mapper that has no row of its own for the category-input error
HandleError_NoCategoryRow(err) ==
    CASE ErrorsIs(err, ErrInvalidOffset) ->
           ErrorResponseBody(StatusBadRequest, ErrCodeInvalidInput, err.text)
      [] ErrorsIs(err, ErrInvalidLimit) ->
           ErrorResponseBody(StatusBadRequest, ErrCodeInvalidInput, err.text)
      [] ErrorsIs(err, ErrInvalidPrice) ->
           ErrorResponseBody(StatusBadRequest, ErrCodeInvalidInput, err.text)
      [] ErrorsIs(err, ErrNegativePrice) ->
           ErrorResponseBody(StatusBadRequest, ErrCodeInvalidInput, err.text)
      [] ErrorsIs(err, ErrInvalidCategoryInput) \/ ErrorsIs(err, ErrInvalidInput) ->
           ErrorResponseBody(StatusBadRequest, ErrCodeInvalidInput,
                             "Invalid input provided")
      [] ErrorsIs(err, ErrNotFound) \/ ErrorsIs(err, ErrRecordNotFound) ->
           ErrorResponseBody(StatusNotFound, ErrCodeNotFound,
                             "Resource not found")
      [] OTHER ->
           ErrorResponseBody(StatusInternalServerError, ErrCodeInternal,
                             "An internal error occurred")

\* a mapper whose default branch answers with the error's own text
HandleError_LeakText(err) ==
    CASE ErrorsIs(err, ErrInvalidOffset) \/ ErrorsIs(err, ErrInvalidLimit)
           \/ ErrorsIs(err, ErrInvalidPrice) \/ ErrorsIs(err, ErrNegativePrice)
           \/ ErrorsIs(err, ErrInvalidCategoryInput) ->
           ErrorResponseBody(StatusBadRequest, ErrCodeInvalidInput, err.text)
      [] ErrorsIs(err, ErrInvalidInput) ->
           ErrorResponseBody(StatusBadRequest, ErrCodeInvalidInput,
                             "Invalid input provided")
      [] ErrorsIs(err, ErrNotFound) \/ ErrorsIs(err, ErrRecordNotFound) ->
           ErrorResponseBody(StatusNotFound, ErrCodeNotFound,
                             "Resource not found")
      [] OTHER ->
           ErrorResponseBody(StatusInternalServerError, ErrCodeInternal,
                             err.text)

\* a mapper whose default branch answers with the kind of the error as code
HandleError_LeakKind(err) ==
    CASE ErrorsIs(err, ErrInvalidOffset) \/ ErrorsIs(err, ErrInvalidLimit)
           \/ ErrorsIs(err, ErrInvalidPrice) \/ ErrorsIs(err, ErrNegativePrice)
           \/ ErrorsIs(err, ErrInvalidCategoryInput) ->
           ErrorResponseBody(StatusBadRequest, ErrCodeInvalidInput, err.text)
      [] ErrorsIs(err, ErrInvalidInput) ->
           ErrorResponseBody(StatusBadRequest, ErrCodeInvalidInput,
                             "Invalid input provided")
      [] ErrorsIs(err, ErrNotFound) \/ ErrorsIs(err, ErrRecordNotFound) ->
           ErrorResponseBody(StatusNotFound, ErrCodeNotFound,
                             "Resource not found")
      [] OTHER ->
           ErrorResponseBody(StatusInternalServerError, err.name,
                             "An internal error occurred")

\* a mapper with no case for the store's record-not-found error
HandleError_NoStoreCase(err) ==
    CASE ErrorsIs(err, ErrInvalidOffset) \/ ErrorsIs(err, ErrInvalidLimit)
           \/ ErrorsIs(err, ErrInvalidPrice) \/ ErrorsIs(err, ErrNegativePrice)
           \/ ErrorsIs(err, ErrInvalidCategoryInput) ->
           ErrorResponseBody(StatusBadRequest, ErrCodeInvalidInput, err.text)
      [] ErrorsIs(err, ErrInvalidInput) ->
           ErrorResponseBody(StatusBadRequest, ErrCodeInvalidInput,
                             "Invalid input provided")
      [] ErrorsIs(err, ErrNotFound) ->
           ErrorResponseBody(StatusNotFound, ErrCodeNotFound,
                             "Resource not found")
      [] OTHER ->
           ErrorResponseBody(StatusInternalServerError, ErrCodeInternal,
                             "An internal error occurred")

\* HandleError: the switch, first matching case wins
HandleError(err) ==
    CASE ErrorsIs(err, ErrInvalidOffset) ->
           ErrorResponseBody(StatusBadRequest, ErrCodeInvalidInput, err.text)
      [] ErrorsIs(err, ErrInvalidLimit) ->
           ErrorResponseBody(StatusBadRequest, ErrCodeInvalidInput, err.text)
      [] ErrorsIs(err, ErrInvalidPrice) ->
           ErrorResponseBody(StatusBadRequest, ErrCodeInvalidInput, err.text)
      [] ErrorsIs(err, ErrNegativePrice) ->
           ErrorResponseBody(StatusBadRequest, ErrCodeInvalidInput, err.text)
      [] ErrorsIs(err, ErrInvalidCategoryInput) ->
           ErrorResponseBody(StatusBadRequest, ErrCodeInvalidInput, err.text)
      [] ErrorsIs(err, ErrInvalidInput) ->
           ErrorResponseBody(StatusBadRequest, ErrCodeInvalidInput,
                             "Invalid input provided")
      [] ErrorsIs(err, ErrNotFound) ->
           ErrorResponseBody(StatusNotFound, ErrCodeNotFound,
                             "Resource not found")
      [] ErrorsIs(err, ErrRecordNotFound) ->
           ErrorResponseBody(StatusNotFound, ErrCodeNotFound,
                             "Resource not found")
      [] OTHER ->
           ErrorResponseBody(StatusInternalServerError, ErrCodeInternal,
                             "An internal error occurred")

\* ErrorHandler: the handler's own response unless it returned an error
ErrorHandler(out) ==
    IF out.err # NoError THEN HandleError(out.err) ELSE out.resp

(***************************************************************************)
(* Store adapter: rows of the three tables and the repositories            *)
(***************************************************************************)
\* models.Category row
Category(id, code, name) == [ID |-> id, Code |-> code, Name |-> name]

\* models.Product row; CategoryID is Nil or Ptr(id); Price has scale 2
Product(id, code, price, categoryID) ==
    [ID |-> id, Code |-> code, Price |-> price, CategoryID |-> categoryID]

\* models.Variant row; Price is Nil or Ptr(decimal)
Variant(id, productID, name, sku, price) ==
    [ID |-> id, ProductID |-> productID, Name |-> name, SKU |-> sku,
     Price |-> price]

\* Preload("Category"): the category row the product points to, or nil
PreloadCategory(p) ==
    IF p.CategoryID = Nil THEN Nil
    ELSE LET hit == SelectSeq(categories, LAMBDA c : c.ID = p.CategoryID[1])
         IN  IF hit = <<>> THEN Nil ELSE Ptr(hit[1])

\* Preload("Variants"): the variant rows of the product, in table order
PreloadVariants(p) == SelectSeq(variants, LAMBDA v : v.ProductID = p.ID)

\* a product row with both associations loaded, variants in the order vs
Loaded(p, vs) ==
    [ID |-> p.ID, Code |-> p.Code, Price |-> p.Price,
     CategoryID |-> p.CategoryID, Category |-> PreloadCategory(p),
     Variants |-> vs]

NoProduct ==
    [ID |-> 0, Code |-> "", Price |-> Dec(0, -2), CategoryID |-> Nil,
     Category |-> Nil, Variants |-> <<>>]

\* models.ProductFilter
ProductFilter(category, priceLessThan) ==
    [Category |-> category, PriceLessThan |-> priceLessThan]

\* filters that keep a product when either condition holds
applyFilters_Either(query, filter) ==
    LET inCategory(p) ==
            \E i \in 1..Len(categories) :
                /\ p.CategoryID = Ptr(categories[i].ID)
                /\ categories[i].Code = filter.Category
        below(p) == DecLessThan(p.Price, filter.PriceLessThan[1])
    IN  IF filter.Category # "" /\ filter.PriceLessThan # Nil
        THEN SelectSeq(query, LAMBDA p : inCategory(p) \/ below(p))
        ELSE IF filter.Category # ""
        THEN SelectSeq(query, inCategory)
        ELSE IF filter.PriceLessThan # Nil
        THEN SelectSeq(query, below)
        ELSE query

\* filters that also keep a product whose price equals the threshold
applyFilters_AtMost(query, filter) ==
    LET joined ==
            IF filter.Category # ""
            THEN SelectSeq(query, LAMBDA p :
                     \E i \in 1..Len(categories) :
                         /\ p.CategoryID = Ptr(categories[i].ID)
                         /\ categories[i].Code = filter.Category)
            ELSE query
    IN  IF filter.PriceLessThan # Nil
        THEN SelectSeq(joined, LAMBDA p :
                 ~DecLessThan(filter.PriceLessThan[1], p.Price))
        ELSE joined

\* applyFilters: JOIN categories + WHERE code = ?, then WHERE price < ?
applyFilters(query, filter) ==
    LET joined ==
            IF filter.Category # ""
            THEN SelectSeq(query, LAMBDA p :
                     \E i \in 1..Len(categories) :
                         /\ p.CategoryID = Ptr(categories[i].ID)
                         /\ categories[i].Code = filter.Category)
            ELSE query
    IN  IF filter.PriceLessThan # Nil
        THEN SelectSeq(joined, LAMBDA p :
                 DecLessThan(p.Price, filter.PriceLessThan[1]))
        ELSE joined

\* a repository whose total is the length of the returned page
ProductsRepository_GetAllProducts_PageTotal(offset, limit, filter, fault) ==
    LET matching == applyFilters(products, filter)
        page     == Page(matching, offset, limit)
    IN  IF fault = "count"
        THEN [err |-> ErrConnection, products |-> <<>>, total |-> 0,
              queries |-> <<"count">>]
        ELSE IF fault = "find"
        THEN [err |-> ErrConnection, products |-> <<>>, total |-> 0,
              queries |-> <<"count", "find">>]
        ELSE [err |-> NoError,
              products |-> [i \in 1..Len(page) |->
                               Loaded(page[i], PreloadVariants(page[i]))],
              total |-> Len(page),
              queries |-> <<"count", "find">>]

\* a repository that pages through the rows from the highest id down
ProductsRepository_GetAllProducts_Descending(offset, limit, filter, fault) ==
    LET matching == applyFilters(products, filter)
        reversed == [i \in 1..Len(matching) |->
                        matching[Len(matching) + 1 - i]]
        page     == Page(reversed, offset, limit)
    IN  IF fault = "count"
        THEN [err |-> ErrConnection, products |-> <<>>, total |-> 0,
              queries |-> <<"count">>]
        ELSE IF fault = "find"
        THEN [err |-> ErrConnection, products |-> <<>>, total |-> 0,
              queries |-> <<"count", "find">>]
        ELSE [err |-> NoError,
              products |-> [i \in 1..Len(page) |->
                               Loaded(page[i], PreloadVariants(page[i]))],
              total |-> Len(matching),
              queries |-> <<"count", "find">>]

\* ProductsRepository.GetAllProducts: COUNT over the filtered rows, then the
\* filtered rows ORDER BY products.id ASC OFFSET offset LIMIT limit. The
\* products table is kept in id order. fault names the query that fails.
ProductsRepository_GetAllProducts(offset, limit, filter, fault) ==
    LET matching == applyFilters(products, filter)
        page     == Page(matching, offset, limit)
    IN  IF fault = "count"
        THEN [err |-> ErrConnection, products |-> <<>>, total |-> 0,
              queries |-> <<"count">>]
        ELSE IF fault = "find"
        THEN [err |-> ErrConnection, products |-> <<>>, total |-> 0,
              queries |-> <<"count", "find">>]
        ELSE [err |-> NoError,
              products |-> [i \in 1..Len(page) |->
                               Loaded(page[i], PreloadVariants(page[i]))],
              total |-> Len(matching),
              queries |-> <<"count", "find">>]

\* ProductsRepository.GetProductByCode: WHERE code = ? ... First(). The set
\* of results the store may give: the driver's error when the query fails,
\* gorm.ErrRecordNotFound when no row matches, else the row with its
\* associations; the variants come without ORDER BY, so in any order.
ProductsRepository_GetProductByCode(code, fault) ==
    LET hit == SelectSeq(products, LAMBDA p : p.Code = code)
    IN  IF fault = "find"
        THEN { [err |-> ErrConnection, product |-> NoProduct] }
        ELSE IF hit = <<>>
        THEN { [err |-> ErrRecordNotFound, product |-> NoProduct] }
        ELSE { [err |-> NoError, product |-> Loaded(hit[1], vs)] :
                 vs \in Orderings(PreloadVariants(hit[1])) }

\* CategoriesRepository.GetAllCategories: Find without ORDER BY; the rows
\* come back in an order the database chooses.
CategoriesRepository_GetAllCategories(fault) ==
    IF fault = "find"
    THEN { [err |-> ErrConnection, categories |-> <<>>] }
    ELSE { [err |-> NoError, categories |-> rows] :
             rows \in Orderings(categories) }

NextCategoryID ==
    IF categories = <<>> THEN 1 ELSE categories[Len(categories)].ID + 1

\* an insert that overwrites the name of the row holding the same code
CategoriesRepository_CreateCategory_Upsert(code, name, fault) ==
    LET category == Category(NextCategoryID, code, name)
    IN  IF fault = "create"
        THEN [err |-> ErrConnection, category |-> Nil, table |-> categories]
        ELSE IF \E i \in 1..Len(categories) : categories[i].Code = code
        THEN [err |-> NoError, category |-> Ptr(category),
              table |-> [i \in 1..Len(categories) |->
                           IF categories[i].Code = code
                           THEN [categories[i] EXCEPT !.Name = name]
                           ELSE categories[i]]]
        ELSE [err |-> NoError, category |-> Ptr(category),
              table |-> Append(categories, category)]

\* an insert into a table that has no unique index on code
CategoriesRepository_CreateCategory_NoIndex(code, name, fault) ==
    LET category == Category(NextCategoryID, code, name)
    IN  IF fault = "create"
        THEN [err |-> ErrConnection, category |-> Nil, table |-> categories]
        ELSE [err |-> NoError, category |-> Ptr(category),
              table |-> Append(categories, category)]

\* a repository that writes the new category over the last row
CategoriesRepository_CreateCategory_ReplaceLast(code, name, fault) ==
    LET category == Category(NextCategoryID, code, name)
    IN  IF fault = "create"
        THEN [err |-> ErrConnection, category |-> Nil, table |-> categories]
        ELSE IF \E i \in 1..Len(categories) : categories[i].Code = code
        THEN [err |-> ErrDuplicateKey, category |-> Nil, table |-> categories]
        ELSE [err |-> NoError, category |-> Ptr(category),
              table |-> IF categories = <<>> THEN <<category>>
                        ELSE [categories EXCEPT ![Len(categories)] = category]]

\* a repository whose unique index is on the name instead of the code
CategoriesRepository_CreateCategory_IndexOnName(code, name, fault) ==
    LET category == Category(NextCategoryID, code, name)
    IN  IF fault = "create"
        THEN [err |-> ErrConnection, category |-> Nil, table |-> categories]
        ELSE IF \E i \in 1..Len(categories) : categories[i].Name = name
        THEN [err |-> ErrDuplicateKey, category |-> Nil, table |-> categories]
        ELSE [err |-> NoError, category |-> Ptr(category),
              table |-> Append(categories, category)]

\* CategoriesRepository.CreateCategory: INSERT of (code, name); the unique
\* index on code rejects a code that a row already holds. table is the
\* categories table after the call.
CategoriesRepository_CreateCategory(code, name, fault) ==
    LET category == Category(NextCategoryID, code, name)
    IN  IF fault = "create"
        THEN [err |-> ErrConnection, category |-> Nil, table |-> categories]
        ELSE IF \E i \in 1..Len(categories) : categories[i].Code = code
        THEN [err |-> ErrDuplicateKey, category |-> Nil, table |-> categories]
        ELSE [err |-> NoError, category |-> Ptr(category),
              table |-> Append(categories, category)]

(***************************************************************************)
(* What a request did on its way down: the error handed to HandleError,    *)
(* the service methods the handler invoked, the error the service          *)
(* returned, the repository methods the service invoked with the error     *)
(* and the arguments of the call, the queries the repository issued, and   *)
(* the arguments ValidatePagination was called with.                       *)
(***************************************************************************)
BlankTrace ==
    [err |-> NoError, svcCalls |-> <<>>, svcErr |-> NoError,
     repoCalls |-> <<>>, repoErr |-> NoError, queries |-> <<>>,
     storeOffset |-> 0, storeLimit |-> 0,
     storeFilter |-> [Category |-> "", PriceLessThan |-> <<>>],
     vpArgs |-> <<>>]

(***************************************************************************)
(* services: catalog                                                       *)
(***************************************************************************)
PaginationParams(offset, limit) == [Offset |-> offset, Limit |-> limit]

FilterParams(category, priceLessThan) ==
    [Category |-> category, PriceLessThan |-> priceLessThan]

CategoryDTO(code, name) == [Code |-> code, Name |-> name]

clamp(value, min, max) ==
    IF value < min THEN min
    ELSE IF value > max THEN max
    ELSE value

\* a normalisation that takes a limit of zero or less for an omitted one
ValidatePagination_ZeroIsOmitted(offset, limit, limitProvided) ==
    IF limitProvided /\ limit > 0
    THEN PaginationParams(offset, clamp(limit, 1, 100))
    ELSE PaginationParams(offset, 10)

\* CatalogService.ValidatePagination
ValidatePagination(offset, limit, limitProvided) ==
    IF limitProvided
    THEN PaginationParams(offset, clamp(limit, 1, 100))
    ELSE PaginationParams(offset, 10)

\* a mapping that gives a product without category an empty category
mapProductToDTO_EmptyCategory(p) ==
    [Code |-> p.Code, Price |-> InexactFloat64(p.Price),
     Category |-> IF p.Category # Nil
                  THEN Ptr(CategoryDTO(p.Category[1].Code, p.Category[1].Name))
                  ELSE Ptr(CategoryDTO("", ""))]

mapProductToDTO(p) ==
    [Code |-> p.Code, Price |-> InexactFloat64(p.Price),
     Category |-> IF p.Category # Nil
                  THEN Ptr(CategoryDTO(p.Category[1].Code, p.Category[1].Name))
                  ELSE Nil]

\* a mapping that takes a stored variant price of zero for an absent one
mapProductToDetailDTO_ZeroIsAbsent(p) ==
    LET productPrice == InexactFloat64(p.Price)
    IN  [Code |-> p.Code, Price |-> InexactFloat64(p.Price),
         Category |-> IF p.Category # Nil
                      THEN Ptr(CategoryDTO(p.Category[1].Code,
                                           p.Category[1].Name))
                      ELSE Nil,
         Variants |-> [i \in 1..Len(p.Variants) |->
            [Name |-> p.Variants[i].Name, SKU |-> p.Variants[i].SKU,
             Price |-> IF p.Variants[i].Price # Nil
                          /\ p.Variants[i].Price[1].coef # 0
                       THEN InexactFloat64(p.Variants[i].Price[1])
                       ELSE productPrice]]]

mapProductToDetailDTO(p) ==
    LET productPrice == InexactFloat64(p.Price)
    IN  [Code |-> p.Code, Price |-> InexactFloat64(p.Price),
         Category |-> IF p.Category # Nil
                      THEN Ptr(CategoryDTO(p.Category[1].Code,
                                           p.Category[1].Name))
                      ELSE Nil,
         Variants |-> [i \in 1..Len(p.Variants) |->
            [Name |-> p.Variants[i].Name, SKU |-> p.Variants[i].SKU,
             Price |-> IF p.Variants[i].Price # Nil
                       THEN InexactFloat64(p.Variants[i].Price[1])
                       ELSE productPrice]]]

\* a service that asks the store a second time when the first call failed
CatalogService_ListProducts_RetryOnce(params, filter, fault) ==
    LET repoFilter == ProductFilter(filter.Category, filter.PriceLessThan)
        r == ProductsRepository_GetAllProducts(params.Offset, params.Limit,
                                               repoFilter, fault)
        t == [BlankTrace EXCEPT
                !.repoCalls = IF r.err # NoError
                              THEN <<"GetAllProducts", "GetAllProducts">>
                              ELSE <<"GetAllProducts">>,
                !.repoErr = r.err,
                !.queries = IF r.err # NoError THEN r.queries \o r.queries
                            ELSE r.queries,
                !.storeOffset = params.Offset,
                !.storeLimit = params.Limit,
                !.storeFilter = repoFilter]
    IN  IF r.err # NoError
        THEN [err |-> r.err, Products |-> <<>>, Total |-> 0, t |-> t]
        ELSE [err |-> NoError,
              Products |-> [i \in 1..Len(r.products) |->
                               mapProductToDTO(r.products[i])],
              Total |-> r.total, t |-> t]

\* CatalogService.ListProducts
CatalogService_ListProducts(params, filter, fault) ==
    LET repoFilter == ProductFilter(filter.Category, filter.PriceLessThan)
        r == ProductsRepository_GetAllProducts(params.Offset, params.Limit,
                                               repoFilter, fault)
        t == [BlankTrace EXCEPT !.repoCalls = <<"GetAllProducts">>,
                                !.repoErr = r.err, !.queries = r.queries,
                                !.storeOffset = params.Offset,
                                !.storeLimit = params.Limit,
                                !.storeFilter = repoFilter]
    IN  IF r.err # NoError
        THEN [err |-> r.err, Products |-> <<>>, Total |-> 0, t |-> t]
        ELSE [err |-> NoError,
              Products |-> [i \in 1..Len(r.products) |->
                               mapProductToDTO(r.products[i])],
              Total |-> r.total, t |-> t]

NoDetail == [Code |-> "", Price |-> 0, Category |-> Nil, Variants |-> <<>>]

\* a lookup that reports every repository error as not found
CatalogService_GetProductByCode_AllNotFound(code, fault) ==
    IF code = ""
    THEN { [err |-> ErrInvalidInput, detail |-> NoDetail, t |-> BlankTrace] }
    ELSE { LET t == [BlankTrace EXCEPT !.repoCalls = <<"GetProductByCode">>,
                                       !.repoErr = r.err,
                                       !.queries = <<"find">>]
           IN  IF r.err # NoError
               THEN [err |-> ErrNotFound, detail |-> NoDetail, t |-> t]
               ELSE [err |-> NoError,
                     detail |-> mapProductToDetailDTO(r.product), t |-> t] :
             r \in ProductsRepository_GetProductByCode(code, fault) }

\* a lookup without the check for the empty code
CatalogService_GetProductByCode_NoEmptyCheck(code, fault) ==
    { LET t == [BlankTrace EXCEPT !.repoCalls = <<"GetProductByCode">>,
                                  !.repoErr = r.err, !.queries = <<"find">>]
      IN  IF r.err # NoError
          THEN IF ErrorsIs(r.err, ErrRecordNotFound)
               THEN [err |-> ErrNotFound, detail |-> NoDetail, t |-> t]
               ELSE [err |-> r.err, detail |-> NoDetail, t |-> t]
          ELSE [err |-> NoError,
                detail |-> mapProductToDetailDTO(r.product), t |-> t] :
        r \in ProductsRepository_GetProductByCode(code, fault) }

\* a service that also rejects the code of one space
CatalogService_GetProductByCode_TrimSpace(code, fault) ==
    IF code = "" \/ code = " "
    THEN { [err |-> ErrInvalidInput, detail |-> NoDetail, t |-> BlankTrace] }
    ELSE { LET t == [BlankTrace EXCEPT !.repoCalls = <<"GetProductByCode">>,
                                       !.repoErr = r.err,
                                       !.queries = <<"find">>]
           IN  IF r.err # NoError
               THEN IF ErrorsIs(r.err, ErrRecordNotFound)
                    THEN [err |-> ErrNotFound, detail |-> NoDetail, t |-> t]
                    ELSE [err |-> r.err, detail |-> NoDetail, t |-> t]
               ELSE [err |-> NoError,
                     detail |-> mapProductToDetailDTO(r.product), t |-> t] :
             r \in ProductsRepository_GetProductByCode(code, fault) }

\* CatalogService.GetProductByCode: the set of results, one for each result
\* the repository may give
CatalogService_GetProductByCode(code, fault) ==
    IF code = ""
    THEN { [err |-> ErrInvalidInput, detail |-> NoDetail, t |-> BlankTrace] }
    ELSE { LET t == [BlankTrace EXCEPT !.repoCalls = <<"GetProductByCode">>,
                                       !.repoErr = r.err,
                                       !.queries = <<"find">>]
           IN  IF r.err # NoError
               THEN IF ErrorsIs(r.err, ErrRecordNotFound)
                    THEN [err |-> ErrNotFound, detail |-> NoDetail, t |-> t]
                    ELSE [err |-> r.err, detail |-> NoDetail, t |-> t]
               ELSE [err |-> NoError,
                     detail |-> mapProductToDetailDTO(r.product), t |-> t] :
             r \in ProductsRepository_GetProductByCode(code, fault) }

(***************************************************************************)
(* services: categories                                                    *)
(***************************************************************************)
CreateCategoryInput(code, name) == [Code |-> code, Name |-> name]

\* a service that leaves out the last row the store returned
CategoriesService_ListCategories_DropLast(fault) ==
    { LET t == [BlankTrace EXCEPT !.repoCalls = <<"GetAllCategories">>,
                                  !.repoErr = r.err, !.queries = <<"find">>]
      IN  IF r.err # NoError
          THEN [err |-> r.err, result |-> <<>>, t |-> t]
          ELSE [err |-> NoError,
                result |-> [i \in 1..(IF Len(r.categories) > 1
                                      THEN Len(r.categories) - 1
                                      ELSE Len(r.categories)) |->
                              CategoryDTO(r.categories[i].Code,
                                          r.categories[i].Name)],
                t |-> t] :
        r \in CategoriesRepository_GetAllCategories(fault) }

\* CategoriesService.ListCategories
CategoriesService_ListCategories(fault) ==
    { LET t == [BlankTrace EXCEPT !.repoCalls = <<"GetAllCategories">>,
                                  !.repoErr = r.err, !.queries = <<"find">>]
      IN  IF r.err # NoError
          THEN [err |-> r.err, result |-> <<>>, t |-> t]
          ELSE [err |-> NoError,
                result |-> [i \in 1..Len(r.categories) |->
                              CategoryDTO(r.categories[i].Code,
                                          r.categories[i].Name)],
                t |-> t] :
        r \in CategoriesRepository_GetAllCategories(fault) }

\* a validation that rejects only when both fields are empty
CategoriesService_CreateCategory_BothEmpty(input, fault) ==
    IF input.Code = "" /\ input.Name = ""
    THEN [err |-> ErrInvalidCategoryInput, dto |-> Nil, table |-> categories,
          t |-> BlankTrace]
    ELSE LET r == CategoriesRepository_CreateCategory(input.Code, input.Name,
                                                      fault)
             t == [BlankTrace EXCEPT !.repoCalls = <<"CreateCategory">>,
                                     !.repoErr = r.err,
                                     !.queries = <<"create">>]
         IN  IF r.err # NoError
             THEN [err |-> r.err, dto |-> Nil, table |-> r.table, t |-> t]
             ELSE [err |-> NoError,
                   dto |-> Ptr(CategoryDTO(r.category[1].Code,
                                           r.category[1].Name)),
                   table |-> r.table, t |-> t]

\* CategoriesService.CreateCategory
CategoriesService_CreateCategory(input, fault) ==
    IF input.Code = "" \/ input.Name = ""
    THEN [err |-> ErrInvalidCategoryInput, dto |-> Nil, table |-> categories,
          t |-> BlankTrace]
    ELSE LET r == CategoriesRepository_CreateCategory(input.Code, input.Name,
                                                      fault)
             t == [BlankTrace EXCEPT !.repoCalls = <<"CreateCategory">>,
                                     !.repoErr = r.err,
                                     !.queries = <<"create">>]
         IN  IF r.err # NoError
             THEN [err |-> r.err, dto |-> Nil, table |-> r.table, t |-> t]
             ELSE [err |-> NoError,
                   dto |-> Ptr(CategoryDTO(r.category[1].Code,
                                           r.category[1].Name)),
                   table |-> r.table, t |-> t]

(***************************************************************************)
(* handlers: catalog                                                       *)
(***************************************************************************)
\* a parser that takes a value it cannot parse for 0
parseQueryIntWithValidation_Lenient(s) ==
    IF s = <<>> THEN [ok |-> TRUE, v |-> 0]
    ELSE LET a == Atoi(s)
         IN  IF ~a.ok THEN [ok |-> TRUE, v |-> 0] ELSE [ok |-> TRUE, v |-> a.v]

parseQueryIntWithValidation(s) ==
    IF s = <<>> THEN [ok |-> TRUE, v |-> 0]
    ELSE LET a == Atoi(s)
         IN  IF ~a.ok THEN [ok |-> FALSE, v |-> 0] ELSE [ok |-> TRUE, v |-> a.v]

\* a parser that rejects an integer below 1
parseQueryIntWithFlagAndValidation_PositiveOnly(s) ==
    IF s = <<>> THEN [ok |-> TRUE, v |-> 0, provided |-> FALSE]
    ELSE LET a == Atoi(s)
         IN  IF ~a.ok \/ a.v < 1
             THEN [ok |-> FALSE, v |-> 0, provided |-> FALSE]
             ELSE [ok |-> TRUE, v |-> a.v, provided |-> TRUE]

parseQueryIntWithFlagAndValidation(s) ==
    IF s = <<>> THEN [ok |-> TRUE, v |-> 0, provided |-> FALSE]
    ELSE LET a == Atoi(s)
         IN  IF ~a.ok THEN [ok |-> FALSE, v |-> 0, provided |-> FALSE]
             ELSE [ok |-> TRUE, v |-> a.v, provided |-> TRUE]

\* the category of a response: Nil leaves the JSON field out (omitempty)
ResponseCategory(c) ==
    IF c # Nil THEN Ptr([code |-> c[1].Code, name |-> c[1].Name]) ELSE Nil

mapProductsToResponse(ps) ==
    [i \in 1..Len(ps) |->
        [code |-> ps[i].Code, price |-> ps[i].Price,
         category |-> ResponseCategory(ps[i].Category)]]

mapDetailToResponse(detail) ==
    [code |-> detail.Code, price |-> detail.Price,
     category |-> ResponseCategory(detail.Category),
     variants |-> [i \in 1..Len(detail.Variants) |->
                     [name |-> detail.Variants[i].Name,
                      sku |-> detail.Variants[i].SKU,
                      price |-> detail.Variants[i].Price]]]

\* what a handler hands to ErrorHandler: the error it returned, the response
\* it wrote itself, and the trace of its calls
Returned(err, t) == [err |-> err, resp |-> BlankResponse, t |-> t]

\* the trace of a request once api.ErrorHandler has run the handler
Served(out) == [out.t EXCEPT !.err = out.err]

\* a handler that hands a negative price threshold on to the service
CatalogHandler_HandleGet_NoNegativeCheck(query, fault) ==
    LET offset == parseQueryIntWithValidation(query.offset)
        limit  == parseQueryIntWithFlagAndValidation(query.limit)
        params == ValidatePagination(offset.v, limit.v, limit.provided)
        price  == NewFromString(query.priceLessThan)
        filter == FilterParams(query.category,
                               IF query.priceLessThan # <<>>
                               THEN Ptr(price.d) ELSE Nil)
        result == CatalogService_ListProducts(params, filter, fault)
        args   == <<offset.v, limit.v, limit.provided>>
        tv     == [BlankTrace EXCEPT !.svcCalls = <<"ValidatePagination">>,
                                     !.vpArgs = args]
        t      == [result.t EXCEPT
                     !.svcCalls = <<"ValidatePagination", "ListProducts">>,
                     !.svcErr = result.err, !.vpArgs = args]
    IN  IF ~offset.ok THEN Returned(ErrInvalidOffset, BlankTrace)
        ELSE IF offset.v < 0 THEN Returned(ErrInvalidOffset, BlankTrace)
        ELSE IF ~limit.ok THEN Returned(ErrInvalidLimit, BlankTrace)
        ELSE IF query.priceLessThan # <<>> /\ ~price.ok
        THEN Returned(ErrInvalidPrice, tv)
        ELSE IF result.err # NoError THEN Returned(result.err, t)
        ELSE [err |-> NoError,
              resp |-> OKResponse(
                  [kind |-> "list",
                   products |-> mapProductsToResponse(result.Products),
                   total |-> result.Total]),
              t |-> t]

\* a handler that validates the price threshold before the pagination
CatalogHandler_HandleGet_PriceFirst(query, fault) ==
    LET offset == parseQueryIntWithValidation(query.offset)
        limit  == parseQueryIntWithFlagAndValidation(query.limit)
        params == ValidatePagination(offset.v, limit.v, limit.provided)
        price  == NewFromString(query.priceLessThan)
        filter == FilterParams(query.category,
                               IF query.priceLessThan # <<>>
                               THEN Ptr(price.d) ELSE Nil)
        result == CatalogService_ListProducts(params, filter, fault)
        args   == <<offset.v, limit.v, limit.provided>>
        tv     == [BlankTrace EXCEPT !.svcCalls = <<"ValidatePagination">>,
                                     !.vpArgs = args]
        t      == [result.t EXCEPT
                     !.svcCalls = <<"ValidatePagination", "ListProducts">>,
                     !.svcErr = result.err, !.vpArgs = args]
    IN  IF query.priceLessThan # <<>> /\ ~price.ok
        THEN Returned(ErrInvalidPrice, BlankTrace)
        ELSE IF query.priceLessThan # <<>> /\ DecIsNegative(price.d)
        THEN Returned(ErrNegativePrice, BlankTrace)
        ELSE IF ~offset.ok THEN Returned(ErrInvalidOffset, BlankTrace)
        ELSE IF offset.v < 0 THEN Returned(ErrInvalidOffset, BlankTrace)
        ELSE IF ~limit.ok THEN Returned(ErrInvalidLimit, BlankTrace)
        ELSE IF result.err # NoError THEN Returned(result.err, t)
        ELSE [err |-> NoError,
              resp |-> OKResponse(
                  [kind |-> "list",
                   products |-> mapProductsToResponse(result.Products),
                   total |-> result.Total]),
              t |-> t]

\* CatalogHandler.HandleGet
CatalogHandler_HandleGet(query, fault) ==
    LET offset == parseQueryIntWithValidation(query.offset)
        limit  == parseQueryIntWithFlagAndValidation(query.limit)
        params == ValidatePagination(offset.v, limit.v, limit.provided)
        price  == NewFromString(query.priceLessThan)
        filter == FilterParams(query.category,
                               IF query.priceLessThan # <<>>
                               THEN Ptr(price.d) ELSE Nil)
        result == CatalogService_ListProducts(params, filter, fault)
        args   == <<offset.v, limit.v, limit.provided>>
        tv     == [BlankTrace EXCEPT !.svcCalls = <<"ValidatePagination">>,
                                     !.vpArgs = args]
        t      == [result.t EXCEPT
                     !.svcCalls = <<"ValidatePagination", "ListProducts">>,
                     !.svcErr = result.err, !.vpArgs = args]
    IN  IF ~offset.ok THEN Returned(ErrInvalidOffset, BlankTrace)
        ELSE IF offset.v < 0 THEN Returned(ErrInvalidOffset, BlankTrace)
        ELSE IF ~limit.ok THEN Returned(ErrInvalidLimit, BlankTrace)
        ELSE IF query.priceLessThan # <<>> /\ ~price.ok
        THEN Returned(ErrInvalidPrice, tv)
        ELSE IF query.priceLessThan # <<>> /\ DecIsNegative(price.d)
        THEN Returned(ErrNegativePrice, tv)
        ELSE IF result.err # NoError THEN Returned(result.err, t)
        ELSE [err |-> NoError,
              resp |-> OKResponse(
                  [kind |-> "list",
                   products |-> mapProductsToResponse(result.Products),
                   total |-> result.Total]),
              t |-> t]

\* CatalogHandler.HandleGetByCode, for each result the service may give
CatalogHandler_HandleGetByCode(code, fault) ==
    { LET t == [r.t EXCEPT !.svcCalls = <<"GetProductByCode">>,
                           !.svcErr = r.err]
      IN  IF r.err # NoError THEN Returned(r.err, t)
          ELSE [err |-> NoError,
                resp |-> OKResponse(
                    [kind |-> "detail",
                     detail |-> Ptr(mapDetailToResponse(r.detail))]),
                t |-> t] :
        r \in CatalogService_GetProductByCode(code, fault) }

(***************************************************************************)
(* handlers: categories                                                    *)
(***************************************************************************)
\* json.Decode into CreateCategoryRequest: a field the body leaves out
\* keeps the zero value, the empty string
CreateCategoryRequest(body) ==
    [Code |-> IF body.code = Nil THEN "" ELSE body.code[1],
     Name |-> IF body.name = Nil THEN "" ELSE body.name[1]]

\* CategoriesHandler.HandleGet, for each result the service may give
CategoriesHandler_HandleGet(fault) ==
    { LET t == [r.t EXCEPT !.svcCalls = <<"ListCategories">>,
                           !.svcErr = r.err]
      IN  IF r.err # NoError THEN Returned(r.err, t)
          ELSE [err |-> NoError,
                resp |-> OKResponse(
                    [kind |-> "categories",
                     categories |-> [i \in 1..Len(r.result) |->
                                       [code |-> r.result[i].Code,
                                        name |-> r.result[i].Name]]]),
                t |-> t] :
        r \in CategoriesService_ListCategories(fault) }

\* a handler that reports an undecodable body as a category-input error
CategoriesHandler_HandlePost_DecodeIsCategoryInput(body, fault) ==
    LET reqBody == CreateCategoryRequest(body)
        r == CategoriesService_CreateCategory(
                 CreateCategoryInput(reqBody.Code, reqBody.Name), fault)
        t == [r.t EXCEPT !.svcCalls = <<"CreateCategory">>, !.svcErr = r.err]
    IN  IF ~body.valid
        THEN [err |-> ErrInvalidCategoryInput, resp |-> BlankResponse,
              t |-> BlankTrace, table |-> categories]
        ELSE IF r.err # NoError
        THEN [err |-> r.err, resp |-> BlankResponse, t |-> t,
              table |-> r.table]
        ELSE [err |-> NoError,
              resp |-> CreatedResponse(
                  [kind |-> "category",
                   category |-> Ptr([code |-> r.dto[1].Code,
                                     name |-> r.dto[1].Name])]),
              t |-> t, table |-> r.table]

\* CategoriesHandler.HandlePost; table is the categories table afterwards
CategoriesHandler_HandlePost(body, fault) ==
    LET reqBody == CreateCategoryRequest(body)
        r == CategoriesService_CreateCategory(
                 CreateCategoryInput(reqBody.Code, reqBody.Name), fault)
        t == [r.t EXCEPT !.svcCalls = <<"CreateCategory">>, !.svcErr = r.err]
    IN  IF ~body.valid
        THEN [err |-> ErrInvalidInput, resp |-> BlankResponse,
              t |-> BlankTrace, table |-> categories]
        ELSE IF r.err # NoError
        THEN [err |-> r.err, resp |-> BlankResponse, t |-> t,
              table |-> r.table]
        ELSE [err |-> NoError,
              resp |-> CreatedResponse(
                  [kind |-> "category",
                   category |-> Ptr([code |-> r.dto[1].Code,
                                     name |-> r.dto[1].Name])]),
              t |-> t, table |-> r.table]

(***************************************************************************)
(* Requests                                                                *)
(***************************************************************************)
NoBody == [valid |-> TRUE, code |-> Nil, name |-> Nil]

\* no request being served
BlankRequest ==
    [op |-> "none", offset |-> <<>>, limit |-> <<>>, category |-> "",
     priceLessThan |-> <<>>, code |-> "", body |-> NoBody, err |-> NoError,
     args |-> <<>>, fault |-> "none",
     method |-> "", prefix |-> "", path |-> "", requestID |-> "",
     uuid |-> "", panics |-> FALSE]

OffsetInputs ==
    { <<>>, <<"0">>, <<"1">>, <<"3">>, <<"-", "1">>, <<"x">> }

LimitInputs ==
    { <<>>, <<"0">>, <<"1">>, <<"2">>, <<"1", "0", "0">>, <<"1", "0", "1">>,
      <<"-", "3">>, <<"1", ".", "5">> }

CategoryInputs == { "", "CLOTHING", "clothing", "SHOES" }

PriceInputs ==
    { <<>>, <<"0">>, <<"1", "1">>, <<"1", "0", ".", "9", "9">>,
      <<"-", "1">>, <<"a", "b">> }

CodeInputs == { "", " ", "PROD001", "PROD002", "PROD003", "PROD009" }

CategoryCodeInputs == { "", "SHOES", "BAGS" }

CategoryNameInputs == { "", "Shoes", "Bags" }

BodyInputs ==
    { [valid |-> FALSE, code |-> Nil, name |-> Nil] }
    \cup { [valid |-> TRUE, code |-> c, name |-> n] :
             c \in { Nil } \cup { Ptr(x) : x \in CategoryCodeInputs },
             n \in { Nil } \cup { Ptr(x) : x \in CategoryNameInputs } }

IntInputs == { -1, 0, 1, 2, 10, 99, 100, 101, 250 }

(***************************************************************************)
(* The production server: RequestID -> Logger -> Recovery -> mux           *)
(***************************************************************************)
NotFoundHandler == "http.NotFoundHandler"

\* a mux on which POST /v1/categories was not registered
Routes_NoVersionedPost ==
    { [method |-> "GET", prefix |-> "/v1", path |-> "/catalog",
       handler |-> "CatalogHandler.HandleGet"],
      [method |-> "GET", prefix |-> "/v1", path |-> "/catalog/{code}",
       handler |-> "CatalogHandler.HandleGetByCode"],
      [method |-> "GET", prefix |-> "/v1", path |-> "/categories",
       handler |-> "CategoriesHandler.HandleGet"],
      [method |-> "GET", prefix |-> "", path |-> "/catalog",
       handler |-> "CatalogHandler.HandleGet"],
      [method |-> "GET", prefix |-> "", path |-> "/catalog/{code}",
       handler |-> "CatalogHandler.HandleGetByCode"],
      [method |-> "GET", prefix |-> "", path |-> "/categories",
       handler |-> "CategoriesHandler.HandleGet"],
      [method |-> "POST", prefix |-> "", path |-> "/categories",
       handler |-> "CategoriesHandler.HandlePost"] }

\* the patterns main registers on the mux
Routes ==
    { [method |-> "GET", prefix |-> "/v1", path |-> "/catalog",
       handler |-> "CatalogHandler.HandleGet"],
      [method |-> "GET", prefix |-> "/v1", path |-> "/catalog/{code}",
       handler |-> "CatalogHandler.HandleGetByCode"],
      [method |-> "GET", prefix |-> "/v1", path |-> "/categories",
       handler |-> "CategoriesHandler.HandleGet"],
      [method |-> "POST", prefix |-> "/v1", path |-> "/categories",
       handler |-> "CategoriesHandler.HandlePost"],
      [method |-> "GET", prefix |-> "", path |-> "/catalog",
       handler |-> "CatalogHandler.HandleGet"],
      [method |-> "GET", prefix |-> "", path |-> "/catalog/{code}",
       handler |-> "CatalogHandler.HandleGetByCode"],
      [method |-> "GET", prefix |-> "", path |-> "/categories",
       handler |-> "CategoriesHandler.HandleGet"],
      [method |-> "POST", prefix |-> "", path |-> "/categories",
       handler |-> "CategoriesHandler.HandlePost"] }

\* http.ServeMux: the handler of the pattern that matches the request; a
\* {code} wildcard matches one non-empty path segment; no match, the mux's
\* own not-found handler
ServeMux(method, prefix, path, code) ==
    LET matching == { rt \in Routes :
                        /\ rt.method = method
                        /\ rt.prefix = prefix
                        /\ rt.path = path
                        /\ rt.path = "/catalog/{code}" => code # "" }
    IN  IF matching = {} THEN NotFoundHandler
        ELSE (CHOOSE rt \in matching : TRUE).handler

\* http.NotFound
NotFoundResponse ==
    [BlankResponse EXCEPT !.status = StatusNotFound, !.kind = "text",
                          !.message = "404 page not found"]

\* the handler runs on the request: what it hands to ErrorHandler and the
\* categories table it leaves
Invoke(handler, r) ==
    CASE handler = "CatalogHandler.HandleGet" ->
           { [err |-> o.err, resp |-> o.resp, t |-> o.t,
              table |-> categories] :
               o \in { CatalogHandler_HandleGet(r, r.fault) } }
      [] handler = "CatalogHandler.HandleGetByCode" ->
           { [err |-> o.err, resp |-> o.resp, t |-> o.t,
              table |-> categories] :
               o \in CatalogHandler_HandleGetByCode(r.code, r.fault) }
      [] handler = "CategoriesHandler.HandleGet" ->
           { [err |-> o.err, resp |-> o.resp, t |-> o.t,
              table |-> categories] :
               o \in CategoriesHandler_HandleGet(r.fault) }
      [] handler = "CategoriesHandler.HandlePost" ->
           { CategoriesHandler_HandlePost(r.body, r.fault) }
      [] OTHER ->
           { [err |-> NoError, resp |-> NotFoundResponse, t |-> BlankTrace,
              table |-> categories] }

\* the endpoint a handler serves
OpOf(handler) ==
    CASE handler = "CatalogHandler.HandleGet" -> "GET /catalog"
      [] handler = "CatalogHandler.HandleGetByCode" -> "GET /catalog/{code}"
      [] handler = "CategoriesHandler.HandleGet" -> "GET /categories"
      [] handler = "CategoriesHandler.HandlePost" -> "POST /categories"
      [] OTHER -> "not found"

\* mux.ServeHTTP: the route's handler, wrapped by api.ErrorHandler, serves
\* the request, or panics before it has written or stored anything
Mux(r) ==
    LET h == ServeMux(r.method, r.prefix, r.path, r.code)
    IN  IF r.panics /\ h # NotFoundHandler
        THEN { [op |-> "panic", panicked |-> TRUE, resp |-> BlankResponse,
                t |-> BlankTrace, table |-> categories] }
        ELSE { [op |-> OpOf(h), panicked |-> FALSE,
                resp |-> ErrorHandler(o), t |-> Served(o),
                table |-> o.table] : o \in Invoke(h, r) }

\* a middleware that lets the panic of the inner handler pass
Recovery_NoRecover(next) == next

\* middleware.Recovery: a panic of the inner handler becomes the 500 body
Recovery(next) ==
    { IF w.panicked
      THEN [w EXCEPT !.resp = ErrorResponseBody(StatusInternalServerError,
                                  ErrCodeInternal,
                                  "An internal error occurred")]
      ELSE w : w \in next }

\* middleware.Logger: logs the request and the status; the response is
\* that of the inner handler
Logger(next) == next

\* a middleware that sets the header only to an identifier of its own
RequestID_AlwaysNew(r, next) ==
    { [hdr |-> r.uuid, resp |-> w.resp, t |-> w.t, table |-> w.table,
       op |-> w.op] : w \in next }

\* middleware.RequestID: the request's X-Request-ID, or uuid.New() when
\* the request has none, is set on the response before the inner handler
\* runs
RequestID(r, next) ==
    LET requestID == IF r.requestID = "" THEN r.uuid ELSE r.requestID
    IN  { [hdr |-> requestID, resp |-> w.resp, t |-> w.t,
           table |-> w.table, op |-> w.op] : w \in next }

\* the handler main gives to http.Server
Server(r) == RequestID(r, Logger(Recovery(Mux(r))))

Prefixes == { "", "/v1", "/v2" }

\* the X-Request-ID of the request ("" when it has none) and the value
\* uuid.New().String() has for it
RequestIDInputs ==
    { <<"req-123", "gen-1">>, <<"", "gen-1">>, <<"", "gen-2">> }

\* the requests sent to the production server
HTTPRequests ==
    LET listings ==
            { [BlankRequest EXCEPT !.method = "GET", !.path = "/catalog",
                  !.offset = o, !.limit = l, !.category = c,
                  !.priceLessThan = p, !.fault = f] :
                o \in { <<>>, <<"1">>, <<"x">> },
                l \in { <<>>, <<"1", ".", "5">> },
                c \in { "", "CLOTHING" },
                p \in { <<>>, <<"1", "1">>, <<"-", "1">> },
                f \in { "none", "find" } }
        details ==
            { [BlankRequest EXCEPT !.method = "GET",
                  !.path = "/catalog/{code}", !.code = code, !.fault = f] :
                code \in CodeInputs, f \in { "none", "find" } }
        lists ==
            { [BlankRequest EXCEPT !.method = "GET", !.path = "/categories",
                  !.fault = f] : f \in { "none", "find" } }
        creations ==
            { [BlankRequest EXCEPT !.method = "POST",
                  !.path = "/categories", !.body = body, !.fault = f] :
                body \in BodyInputs, f \in { "none", "create" } }
    IN  { [q EXCEPT !.prefix = prefix, !.requestID = id[1], !.uuid = id[2],
              !.panics = panics] :
            q \in listings \cup details \cup lists \cup creations,
            prefix \in Prefixes, id \in RequestIDInputs,
            panics \in BOOLEAN }

(***************************************************************************)
(* Requests served at the same time, each in its own goroutine             *)
(***************************************************************************)
Requests == 1..MaxRequests

\* a request that has not arrived yet
BlankProc ==
    [pc |-> "new", op |-> "none", offset |-> 0, limit |-> 0,
     filter |-> ProductFilter("", Nil), body |-> NoBody, total |-> 0,
     fresh |-> FALSE, resp |-> BlankResponse]

(***************************************************************************)
(* Initial store: any part of the seed data. The rows are those of the     *)
(* end-to-end seed, with the cases it lacks: a product without category,   *)
(* a variant with the explicit price 0.00, a price on a filter threshold.  *)
(***************************************************************************)
SeedCategories ==
    << Category(1, "CLOTHING", "Clothing"), Category(2, "SHOES", "Shoes") >>

SeedProducts ==
    << Product(1, "PROD001", Dec(1099, -2), Ptr(1)),
       Product(2, "PROD002", Dec(1249, -2), Ptr(2)),
       Product(3, "PROD003", Dec(875, -2), Nil),
       Product(4, "PROD004", Dec(1100, -2), Ptr(1)) >>

SeedVariants ==
    << Variant(1, 1, "Variant A", "SKU001A", Ptr(Dec(1199, -2))),
       Variant(2, 1, "Variant B", "SKU001B", Nil),
       Variant(3, 1, "Variant C", "SKU001C", Ptr(Dec(0, -2))),
       Variant(4, 3, "Variant A", "SKU003A", Nil) >>

Init ==
    /\ categories \in { <<>>, SeedCategories }
    /\ products \in
         { ps \in SubSeqs(SeedProducts) :
             \A i \in 1..Len(ps) :
                 ps[i].CategoryID = Nil
                 \/ \E j \in 1..Len(categories) :
                        categories[j].ID = ps[i].CategoryID[1] }
    /\ variants = SelectSeq(SeedVariants, LAMBDA v :
                      \E i \in 1..Len(products) : products[i].ID = v.ProductID)
    /\ req = BlankRequest
    /\ resp = BlankResponse
    /\ hdr = ""
    /\ trace = BlankTrace
    /\ created = {}
    /\ procs = [p \in Requests |-> BlankProc]

(***************************************************************************)
(* Actions: one per endpoint, one per exported function called directly,   *)
(* and the end of a request                                                *)
(***************************************************************************)
Idle == req.op = "none"

\* GET /catalog
GetCatalog ==
    /\ Idle
    /\ \E o \in OffsetInputs, l \in LimitInputs, c \in CategoryInputs,
          p \in PriceInputs, fault \in {"none", "count", "find"} :
          LET q   == [BlankRequest EXCEPT !.op = "GET /catalog",
                         !.offset = o, !.limit = l, !.category = c,
                         !.priceLessThan = p, !.fault = fault]
              out == CatalogHandler_HandleGet(q, fault)
          IN  /\ req' = q
              /\ resp' = ErrorHandler(out)
              /\ trace' = Served(out)
    /\ UNCHANGED <<categories, products, variants, hdr, created, procs>>

\* GET /catalog/{code}
GetCatalogByCode ==
    /\ Idle
    /\ \E code \in CodeInputs, fault \in {"none", "find"} :
          \E out \in CatalogHandler_HandleGetByCode(code, fault) :
              /\ req' = [BlankRequest EXCEPT !.op = "GET /catalog/{code}",
                            !.code = code, !.fault = fault]
              /\ resp' = ErrorHandler(out)
              /\ trace' = Served(out)
    /\ UNCHANGED <<categories, products, variants, hdr, created, procs>>

\* GET /categories
GetCategories ==
    /\ Idle
    /\ \E fault \in {"none", "find"} :
          \E out \in CategoriesHandler_HandleGet(fault) :
              /\ req' = [BlankRequest EXCEPT !.op = "GET /categories",
                            !.fault = fault]
              /\ resp' = ErrorHandler(out)
              /\ trace' = Served(out)
    /\ UNCHANGED <<categories, products, variants, hdr, created, procs>>

\* POST /categories
PostCategories ==
    /\ Idle
    /\ Len(categories) < MaxCategories
    /\ \E body \in BodyInputs, fault \in {"none", "create"} :
          LET out == CategoriesHandler_HandlePost(body, fault)
              r   == ErrorHandler(out)
          IN  /\ req' = [BlankRequest EXCEPT !.op = "POST /categories",
                            !.body = body, !.fault = fault]
              /\ resp' = r
              /\ trace' = Served(out)
              /\ categories' = out.table
              /\ created' = IF r.status = StatusCreated
                            THEN created \cup
                                   { <<CreateCategoryRequest(body).Code,
                                       CreateCategoryRequest(body).Name>> }
                            ELSE created
    /\ UNCHANGED <<products, variants, hdr, procs>>

\* a request to the production server
ServeHTTP ==
    /\ Idle
    /\ \E r \in HTTPRequests :
          /\ r.method = "POST" => Len(categories) < MaxCategories
          /\ \E w \in Server(r) :
                /\ req' = [r EXCEPT !.op = w.op]
                /\ resp' = w.resp
                /\ hdr' = w.hdr
                /\ trace' = w.t
                /\ categories' = w.table
                /\ created' = IF w.resp.status = StatusCreated
                              THEN created \cup
                                     { <<CreateCategoryRequest(r.body).Code,
                                         CreateCategoryRequest(r.body).Name>> }
                              ELSE created
    /\ UNCHANGED <<products, variants, procs>>

\* HandleError called with any error value
CallHandleError ==
    /\ Idle
    /\ \E err \in AllErrors :
          /\ req' = [BlankRequest EXCEPT !.op = "HandleError", !.err = err]
          /\ resp' = HandleError(err)
          /\ trace' = [BlankTrace EXCEPT !.err = err]
    /\ UNCHANGED <<categories, products, variants, hdr, created, procs>>

\* CatalogService.ValidatePagination called with any arguments
CallValidatePagination ==
    /\ Idle
    /\ \E offset \in IntInputs, limit \in IntInputs, provided \in BOOLEAN :
          /\ req' = [BlankRequest EXCEPT !.op = "ValidatePagination",
                        !.args = <<offset, limit, provided>>]
          /\ resp' = [BlankResponse EXCEPT !.kind = "params",
                        !.params = Ptr(ValidatePagination(offset, limit,
                                                          provided))]
          /\ trace' = [BlankTrace EXCEPT
                         !.svcCalls = <<"ValidatePagination">>]
    /\ UNCHANGED <<categories, products, variants, hdr, created, procs>>

\* the response has been sent; the server waits for the next request
Complete ==
    /\ ~Idle
    /\ req' = BlankRequest
    /\ resp' = BlankResponse
    /\ hdr' = ""
    /\ trace' = BlankTrace
    /\ UNCHANGED <<categories, products, variants, created, procs>>

Next ==
    \/ GetCatalog
    \/ GetCatalogByCode
    \/ GetCategories
    \/ PostCategories
    \/ ServeHTTP
    \/ CallHandleError
    \/ CallValidatePagination
    \/ Complete

Spec == Init /\ [][Next]_vars

(***************************************************************************)
(* Concurrent requests: every statement sent to the database is one step;  *)
(* between two steps of a request the other requests, and other clients    *)
(* of the database, take theirs.                                           *)
(***************************************************************************)
\* the COUNT query of GetAllProducts
GetAllProducts_Count(filter) == Len(applyFilters(products, filter))

\* the page query of GetAllProducts
GetAllProducts_Find(offset, limit, filter) ==
    LET page == Page(applyFilters(products, filter), offset, limit)
    IN  [i \in 1..Len(page) |-> Loaded(page[i], PreloadVariants(page[i]))]

ConcurrentOffsets == { 0, 1 }

ConcurrentLimits == { 2, 10 }

ConcurrentBodies ==
    { [valid |-> TRUE, code |-> Ptr(c), name |-> Ptr(n)] :
        c \in { "SHOES", "BAGS" }, n \in { "Bags", "Sacs" } }

\* the row another client of the database inserts
OtherProduct == Product(5, "PROD005", Dec(999, -2), Nil)

ConcurrentInit ==
    /\ categories = SeedCategories
    /\ products = SeedProducts
    /\ variants = SeedVariants
    /\ req = BlankRequest
    /\ resp = BlankResponse
    /\ hdr = ""
    /\ trace = BlankTrace
    /\ created = {}
    /\ procs = [p \in Requests |-> BlankProc]

\* GET /catalog up to the count query of GetAllProducts
ListCount ==
    /\ \E p \in Requests, offset \in ConcurrentOffsets,
          limit \in ConcurrentLimits :
          LET params == ValidatePagination(offset, limit, TRUE)
              filter == ProductFilter("", Nil)
          IN  /\ procs[p].pc = "new"
              /\ procs' = [procs EXCEPT ![p] =
                     [@ EXCEPT !.pc = "counted", !.op = "GET /catalog",
                               !.offset = params.Offset,
                               !.limit = params.Limit,
                               !.filter = filter,
                               !.total = GetAllProducts_Count(filter)]]
    /\ UNCHANGED <<categories, products, variants, req, resp, hdr, trace,
                   created>>

\* GET /catalog from the page query of GetAllProducts to the response
ListFind ==
    /\ \E p \in Requests :
          LET rows == GetAllProducts_Find(procs[p].offset, procs[p].limit,
                                          procs[p].filter)
              dtos == [i \in 1..Len(rows) |-> mapProductToDTO(rows[i])]
          IN  /\ procs[p].pc = "counted"
              /\ procs' = [procs EXCEPT ![p] =
                     [@ EXCEPT !.pc = "done",
                               !.resp = OKResponse(
                                   [kind |-> "list",
                                    products |-> mapProductsToResponse(dtos),
                                    total |-> procs[p].total])]]
    /\ UNCHANGED <<categories, products, variants, req, resp, hdr, trace,
                   created>>

\* POST /categories arrives
CreateReceive ==
    /\ \E p \in Requests, body \in ConcurrentBodies :
          /\ procs[p].pc = "new"
          /\ procs' = [procs EXCEPT ![p] =
                 [@ EXCEPT !.pc = "received", !.op = "POST /categories",
                           !.body = body,
                           !.fresh = \A i \in 1..Len(categories) :
                                        categories[i].Code # body.code[1]]]
    /\ UNCHANGED <<categories, products, variants, req, resp, hdr, trace,
                   created>>

\* POST /categories runs: decoding, validation and the one INSERT
CreateInsert ==
    /\ \E p \in Requests :
          LET out == CategoriesHandler_HandlePost(procs[p].body, "none")
          IN  /\ procs[p].pc = "received"
              /\ categories' = out.table
              /\ procs' = [procs EXCEPT ![p] =
                     [@ EXCEPT !.pc = "done", !.resp = ErrorHandler(out)]]
    /\ UNCHANGED <<products, variants, req, resp, hdr, trace, created>>

\* another client of the database inserts a product
OtherClientInserts ==
    /\ \A i \in 1..Len(products) : products[i].ID < OtherProduct.ID
    /\ products' = Append(products, OtherProduct)
    /\ UNCHANGED <<categories, variants, req, resp, hdr, trace, created,
                   procs>>

\* the other client deletes the product it inserted (which has no variant)
OtherClientDeletes ==
    /\ \E i \in 1..Len(products) : products[i].ID = OtherProduct.ID
    /\ products' = SelectSeq(products,
                       LAMBDA row : row.ID # OtherProduct.ID)
    /\ UNCHANGED <<categories, variants, req, resp, hdr, trace, created,
                   procs>>

ConcurrentNext ==
    \/ ListCount
    \/ ListFind
    \/ CreateReceive
    \/ CreateInsert
    \/ OtherClientInserts
    \/ OtherClientDeletes

ConcurrentSpec == ConcurrentInit /\ [][ConcurrentNext]_vars

(***************************************************************************)
(* Properties                                                              *)
(***************************************************************************)
ServedBy(method) == \E i \in 1..Len(trace.svcCalls) : trace.svcCalls[i] = method

\* the limit section 4.1 prescribes
ExpectedLimit(limit, provided) ==
    IF ~provided THEN 10
    ELSE IF limit < 1 THEN 1
    ELSE IF limit > 100 THEN 100
    ELSE limit

\* C1: ValidatePagination returns Limit = 10 when the limit was not provided
\* (whatever its value) and the limit clamped into 1..100 when it was; the
\* limit GET /catalog hands to the store is therefore always in 1..100, and
\* limit=0 returns exactly one product when at least one matches.
C1_EffectiveLimit ==
    /\ req.op = "ValidatePagination" =>
          /\ resp.params[1].Limit = ExpectedLimit(req.args[2], req.args[3])
          /\ resp.params[1].Offset = req.args[1]
    /\ (req.op = "GET /catalog" /\ ServedBy("ListProducts")) =>
          /\ trace.storeLimit \in 1..100
          /\ trace.storeLimit =
                ExpectedLimit(Atoi(req.limit).v, req.limit # <<>>)
    /\ ( /\ req.op = "GET /catalog"
         /\ req.limit = <<"0">>
         /\ req.offset \in { <<>>, <<"0">> }
         /\ resp.status = StatusOK
         /\ resp.total >= 1 ) => Len(resp.products) = 1

C1_Witness ==
    /\ req.op = "GET /catalog"
    /\ req.limit = <<"0">>
    /\ resp.status = StatusOK
    /\ resp.total >= 2
    /\ Len(resp.products) = 1
    /\ trace.storeLimit = 1

\* the stored rows behind a detail response
StoredProduct(code) == CHOOSE p \in { products[i] : i \in 1..Len(products) } :
                           p.Code = code

StoredVariants(productID) ==
    { variants[i] : i \in { j \in 1..Len(variants) :
                              variants[j].ProductID = productID } }

\* C2: in the result of GetProductByCode each variant whose stored price is
\* absent carries the product's price, and each variant whose stored price
\* is present, an explicit 0 included, carries that stored value.
C2_VariantPriceInheritance ==
    (req.op = "GET /catalog/{code}" /\ resp.status = StatusOK) =>
        LET d  == resp.detail[1]
            p  == StoredProduct(d.code)
            vs == StoredVariants(p.ID)
        IN  /\ Len(d.variants) = Cardinality(vs)
            /\ \A v \in vs :
                 \E i \in 1..Len(d.variants) :
                    /\ d.variants[i].sku = v.SKU
                    /\ v.Price = Nil => d.variants[i].price = d.price
                    /\ v.Price # Nil =>
                          d.variants[i].price = InexactFloat64(v.Price[1])

C2_Witness ==
    /\ req.op = "GET /catalog/{code}"
    /\ resp.status = StatusOK
    /\ resp.detail[1].price = 1099
    /\ \E i, j \in 1..Len(resp.detail[1].variants) :
          /\ resp.detail[1].variants[i].sku = "SKU001C"
          /\ resp.detail[1].variants[i].price = 0
          /\ resp.detail[1].variants[j].sku = "SKU001B"
          /\ resp.detail[1].variants[j].price = 1099

\* a decimal with at most two fractional digits, in hundredths
Hundredths(d) == d.coef * Pow10(d.exp + 2)

\* the stored products a (category, priceLessThan) filter selects
MatchingProducts(category, priceLessThan) ==
    { i \in 1..Len(products) :
        /\ category # "" =>
              \E j \in 1..Len(categories) :
                  /\ products[i].CategoryID # Nil
                  /\ categories[j].ID = products[i].CategoryID[1]
                  /\ categories[j].Code = category
        /\ priceLessThan # <<>> =>
              Hundredths(products[i].Price)
                  < Hundredths(NewFromString(priceLessThan).d) }

\* C3: the total of a listing is the number of stored products matching the
\* (category, priceLessThan) filter, whatever the offset and the limit, also
\* when the offset lies past the end of the result.
C3_TotalIsFilteredCount ==
    (req.op = "GET /catalog" /\ resp.status = StatusOK) =>
        resp.total = Cardinality(MatchingProducts(req.category,
                                                  req.priceLessThan))

C3_Witness ==
    /\ req.op = "GET /catalog"
    /\ resp.status = StatusOK
    /\ req.offset = <<"3">>
    /\ req.priceLessThan # <<>>
    /\ resp.total = 2
    /\ resp.products = <<>>

\* the table of section 4.5, by error kind
ErrorTable ==
    [k \in { e.name : e \in DomainErrors } |->
        CASE k = "ErrInvalidOffset" ->
               <<400, "invalid_input", "offset must be a non-negative integer">>
          [] k = "ErrInvalidLimit" ->
               <<400, "invalid_input", "limit must be a positive integer">>
          [] k = "ErrInvalidPrice" ->
               <<400, "invalid_input",
                 "priceLessThan must be a valid decimal number">>
          [] k = "ErrNegativePrice" ->
               <<400, "invalid_input",
                 "priceLessThan must be a non-negative value">>
          [] k = "ErrInvalidCategoryInput" ->
               <<400, "invalid_input", "category code and name are required">>
          [] k = "ErrInvalidInput" ->
               <<400, "invalid_input", "Invalid input provided">>
          [] k = "ErrNotFound" ->
               <<404, "not_found", "Resource not found">>]

\* C4: HandleError answers each of the seven named error kinds with the
\* status, code and message of its table row, and the (status, message) it
\* writes for one kind is the row of no other kind.
C4_ErrorTable ==
    trace.err \in DomainErrors =>
        /\ <<resp.status, resp.code, resp.message>> = ErrorTable[trace.err.name]
        /\ resp.kind = "error"
        /\ \A k \in DOMAIN ErrorTable :
              k # trace.err.name =>
                 <<ErrorTable[k][1], ErrorTable[k][3]>>
                     # <<resp.status, resp.message>>

C4_Witness ==
    /\ req.op = "POST /categories"
    /\ trace.err = ErrInvalidCategoryInput
    /\ resp.status = 400
    /\ resp.message = "category code and name are required"

InternalErrorResponse(r) ==
    /\ r.status = 500
    /\ r.code = "internal_error"
    /\ r.message = "An internal error occurred"

\* C5 as stated: every error handed to HandleError that is not one of the
\* seven named kinds is answered 500 internal_error.
C5_Original ==
    (trace.err # NoError /\ trace.err \notin DomainErrors) =>
        InternalErrorResponse(resp)

\* C5: every error handed to HandleError that is neither one of the seven
\* named kinds nor the store's record-not-found error is answered 500
\* internal_error "An internal error occurred".
C5_UnclassifiedIs500 ==
    ( /\ trace.err # NoError
      /\ trace.err \notin DomainErrors
      /\ trace.err # ErrRecordNotFound ) => InternalErrorResponse(resp)

C5_Witness ==
    /\ req.op = "GET /catalog"
    /\ trace.err = ErrConnection
    /\ trace.repoErr = ErrConnection
    /\ InternalErrorResponse(resp)

StoredCodes == { products[i].Code : i \in 1..Len(products) }

\* C6: GetProductByCode with the empty code yields InvalidInput, answered
\* 400; with a code that matches no stored product, once the store has
\* answered the lookup, it yields NotFound, answered 404; for every store
\* content. (A lookup the store fails to answer is the case of C7.)
C6_EmptyVersusMissingCode ==
    req.op = "GET /catalog/{code}" =>
        /\ req.code = "" =>
              /\ trace.svcErr = ErrInvalidInput
              /\ resp.status = 400
        /\ (req.code # "" /\ req.code \notin StoredCodes /\ req.fault = "none") =>
              /\ trace.svcErr = ErrNotFound
              /\ resp.status = 404

C6_Witness ==
    /\ req.op = "GET /catalog/{code}"
    /\ req.code = "PROD009"
    /\ Len(products) = 4
    /\ trace.svcErr = ErrNotFound
    /\ resp.status = 404

\* C7: when the store fails during GetProductByCode for a reason other than
\* the record being absent, the service returns that failure, which is not
\* NotFound, and the response is 500; NotFound is produced only when the
\* store reports that no record matches.
C7_StoreFailureIsNotNotFound ==
    req.op = "GET /catalog/{code}" =>
        /\ trace.repoErr \notin { NoError, ErrRecordNotFound } =>
              /\ trace.svcErr = trace.repoErr
              /\ trace.svcErr # ErrNotFound
              /\ resp.status = 500
              /\ resp.status # 404
        /\ trace.svcErr = ErrNotFound =>
              /\ trace.repoErr = ErrRecordNotFound
              /\ req.code \notin StoredCodes

C7_Witness ==
    /\ req.op = "GET /catalog/{code}"
    /\ req.code \in StoredCodes
    /\ trace.repoErr = ErrConnection
    /\ trace.svcErr = ErrConnection
    /\ resp.status = 500

\* a JSON field that is left out or is the empty string
EmptyField(f) == f = Nil \/ f = Ptr("")

\* C8: CreateCategory with an empty code, an empty name or both returns
\* InvalidCategoryInput (400), never invokes the store adapter and leaves
\* the stored categories unchanged; a field the JSON body leaves out counts
\* as the empty string.
C8_EmptyCategoryInputRejected ==
    [][ ( /\ req'.op = "POST /categories"
          /\ req.op = "none"
          /\ req'.body.valid
          /\ EmptyField(req'.body.code) \/ EmptyField(req'.body.name) ) =>
            /\ trace'.svcErr = ErrInvalidCategoryInput
            /\ resp'.status = 400
            /\ resp'.message = "category code and name are required"
            /\ trace'.repoCalls = <<>>
            /\ trace'.queries = <<>>
            /\ categories' = categories ]_vars

C8_Witness ==
    /\ req.op = "POST /categories"
    /\ req.body.valid
    /\ req.body.code = Nil
    /\ req.body.name = Ptr("Bags")
    /\ trace.svcErr = ErrInvalidCategoryInput
    /\ trace.repoCalls = <<>>
    /\ resp.status = 400

\* C9: after a createCategory(code, name) answered 201, every later list of
\* categories contains an entry with exactly that code and name, whatever
\* requests came in between; the 201 body carries the submitted code and
\* name.
C9_CreatedCategoryIsListed ==
    /\ (req.op = "GET /categories" /\ resp.status = StatusOK) =>
          \A pair \in created :
              \E i \in 1..Len(resp.categories) :
                  resp.categories[i] = [code |-> pair[1], name |-> pair[2]]
    /\ (req.op = "POST /categories" /\ resp.status = StatusCreated) =>
          /\ req.body.code # Nil
          /\ req.body.name # Nil
          /\ resp.category = Ptr([code |-> req.body.code[1],
                                  name |-> req.body.name[1]])

C9_Witness ==
    /\ req.op = "GET /categories"
    /\ resp.status = StatusOK
    /\ Cardinality(created) = 2
    /\ Len(resp.categories) = 2

\* C10: a createCategory request with non-empty code and name whose code an
\* already stored category holds is rejected by the store, answered with
\* the generic 500 internal_error, and leaves the stored categories, the
\* name of the existing one included, unchanged.
C10_DuplicateCodeIs500 ==
    [][ ( /\ req'.op = "POST /categories"
          /\ req.op = "none"
          /\ req'.body.valid
          /\ ~EmptyField(req'.body.code)
          /\ ~EmptyField(req'.body.name)
          /\ \E i \in 1..Len(categories) :
                categories[i].Code = req'.body.code[1] ) =>
            /\ trace'.repoCalls = <<"CreateCategory">>
            /\ trace'.repoErr # NoError
            /\ req'.fault = "none" => trace'.repoErr = ErrDuplicateKey
            /\ InternalErrorResponse(resp')
            /\ categories' = categories ]_vars

C10_Witness ==
    /\ req.op = "POST /categories"
    /\ trace.repoErr = ErrDuplicateKey
    /\ InternalErrorResponse(resp)
    /\ \E i \in 1..Len(categories) :
          /\ categories[i].Code = req.body.code[1]
          /\ categories[i].Name # req.body.name[1]

\* what the raw values of the integer parameters mean: the integer a value
\* denotes, for the values that denote one
IntegerValue ==
    [s \in { <<"0">>, <<"1">>, <<"2">>, <<"3">>, <<"1", "0", "0">>,
             <<"1", "0", "1">>, <<"-", "1">>, <<"-", "3">> } |->
        CASE s = <<"0">> -> 0
          [] s = <<"1">> -> 1
          [] s = <<"2">> -> 2
          [] s = <<"3">> -> 3
          [] s = <<"1", "0", "0">> -> 100
          [] s = <<"1", "0", "1">> -> 101
          [] s = <<"-", "1">> -> -1
          [] s = <<"-", "3">> -> -3]

IsInteger(s) == s \in DOMAIN IntegerValue

\* C11: the offset parameter of GET /catalog: empty or missing is taken as
\* 0; a value that is not an integer, or that is a negative integer, yields
\* InvalidOffset (400); a non-negative integer reaches the store unchanged
\* as the offset.
C11_OffsetParameter ==
    req.op = "GET /catalog" =>
        /\ (req.offset # <<>> /\ ~IsInteger(req.offset)) =>
              /\ trace.err = ErrInvalidOffset
              /\ resp.status = 400
              /\ trace.repoCalls = <<>>
        /\ (IsInteger(req.offset) /\ IntegerValue[req.offset] < 0) =>
              /\ trace.err = ErrInvalidOffset
              /\ resp.status = 400
              /\ trace.repoCalls = <<>>
        /\ (req.offset = <<>>
              \/ (IsInteger(req.offset) /\ IntegerValue[req.offset] >= 0)) =>
              /\ trace.err # ErrInvalidOffset
              /\ trace.repoCalls # <<>> =>
                    trace.storeOffset =
                        IF req.offset = <<>> THEN 0
                        ELSE IntegerValue[req.offset]

C11_Witness ==
    /\ req.op = "GET /catalog"
    /\ req.offset = <<"3">>
    /\ trace.repoCalls = <<"GetAllProducts">>
    /\ trace.storeOffset = 3
    /\ resp.status = StatusOK

OffsetAccepted ==
    req.offset = <<>> \/ (IsInteger(req.offset) /\ IntegerValue[req.offset] >= 0)

\* C12: the limit parameter of GET /catalog (the offset being accepted):
\* empty or missing yields (0, provided = false); a value that is not an
\* integer yields InvalidLimit (400); every integer, 0 and the negative
\* ones included, is accepted with provided = true and never rejected as
\* InvalidLimit.
C12_LimitParameter ==
    (req.op = "GET /catalog" /\ OffsetAccepted) =>
        /\ req.limit = <<>> =>
              /\ trace.vpArgs[2] = 0
              /\ trace.vpArgs[3] = FALSE
        /\ (req.limit # <<>> /\ ~IsInteger(req.limit)) =>
              /\ trace.err = ErrInvalidLimit
              /\ resp.status = 400
              /\ resp.message = "limit must be a positive integer"
        /\ IsInteger(req.limit) =>
              /\ trace.err # ErrInvalidLimit
              /\ trace.vpArgs[2] = IntegerValue[req.limit]
              /\ trace.vpArgs[3] = TRUE

C12_Witness ==
    /\ req.op = "GET /catalog"
    /\ req.limit = <<"-", "3">>
    /\ trace.vpArgs = <<0, -3, TRUE>>
    /\ resp.status = StatusOK
    /\ trace.storeLimit = 1

\* what the raw values of priceLessThan mean, in hundredths, for the
\* values that are decimal numbers
PriceValue ==
    [s \in { <<"0">>, <<"1", "1">>, <<"1", "0", ".", "9", "9">>,
             <<"-", "1">> } |->
        CASE s = <<"0">> -> 0
          [] s = <<"1", "1">> -> 1100
          [] s = <<"1", "0", ".", "9", "9">> -> 1099
          [] s = <<"-", "1">> -> -100]

IsNumber(s) == s \in DOMAIN PriceValue

LimitAccepted == req.limit = <<>> \/ IsInteger(req.limit)

\* C13: the priceLessThan parameter of GET /catalog (offset and limit being
\* accepted): empty or missing applies no price filter; a value that is
\* not a number yields InvalidPrice (400); a negative number yields
\* NegativePrice (400); a non-negative number reaches the store as the
\* price threshold with its exact decimal value.
C13_PriceParameter ==
    (req.op = "GET /catalog" /\ OffsetAccepted /\ LimitAccepted) =>
        /\ req.priceLessThan = <<>> =>
              /\ trace.repoCalls = <<"GetAllProducts">>
              /\ trace.storeFilter.PriceLessThan = Nil
        /\ (req.priceLessThan # <<>> /\ ~IsNumber(req.priceLessThan)) =>
              /\ trace.err = ErrInvalidPrice
              /\ resp.status = 400
              /\ trace.repoCalls = <<>>
        /\ (IsNumber(req.priceLessThan) /\ PriceValue[req.priceLessThan] < 0) =>
              /\ trace.err = ErrNegativePrice
              /\ resp.status = 400
              /\ trace.repoCalls = <<>>
        /\ (IsNumber(req.priceLessThan) /\ PriceValue[req.priceLessThan] >= 0) =>
              /\ trace.repoCalls = <<"GetAllProducts">>
              /\ trace.storeFilter.PriceLessThan # Nil
              /\ Hundredths(trace.storeFilter.PriceLessThan[1])
                    = PriceValue[req.priceLessThan]

C13_Witness ==
    /\ req.op = "GET /catalog"
    /\ req.priceLessThan = <<"1", "0", ".", "9", "9">>
    /\ trace.storeFilter.PriceLessThan = Ptr(Dec(1099, -2))
    /\ resp.status = StatusOK
    /\ resp.total >= 1

\* the product's category code is exactly c
InCategory(p, c) ==
    /\ p.CategoryID # Nil
    /\ \E j \in 1..Len(categories) :
          /\ categories[j].ID = p.CategoryID[1]
          /\ categories[j].Code = c

\* the product's price is below the threshold the raw value s denotes
BelowThreshold(p, s) ==
    /\ IsNumber(s)
    /\ Hundredths(p.Price) < PriceValue[s]

ListedCodes == { resp.products[k].code : k \in 1..Len(resp.products) }

\* the page of the response spans the whole filtered set
WholeSetListed ==
    /\ req.op = "GET /catalog"
    /\ resp.status = StatusOK
    /\ trace.storeOffset = 0
    /\ trace.storeLimit >= Len(products)

\* C14: a product is in the filtered set of a listing iff its category code
\* equals the category filter exactly (case-sensitively) and its price is
\* below the threshold, when both filters are given; with one filter only
\* that condition applies; an empty category string applies no category
\* condition.
C14_FilterConjunction ==
    WholeSetListed =>
        \A i \in 1..Len(products) :
            LET p == products[i]
            IN  /\ (req.category # "" /\ req.priceLessThan # <<>>) =>
                      (p.Code \in ListedCodes <=>
                          (InCategory(p, req.category)
                           /\ BelowThreshold(p, req.priceLessThan)))
                /\ (req.category # "" /\ req.priceLessThan = <<>>) =>
                      (p.Code \in ListedCodes <=> InCategory(p, req.category))
                /\ (req.category = "" /\ req.priceLessThan # <<>>) =>
                      (p.Code \in ListedCodes <=>
                          BelowThreshold(p, req.priceLessThan))
                /\ (req.category = "" /\ req.priceLessThan = <<>>) =>
                      p.Code \in ListedCodes

C14_Witness ==
    /\ WholeSetListed
    /\ Len(products) = 4
    /\ req.category = "CLOTHING"
    /\ req.priceLessThan = <<"1", "1">>
    /\ ListedCodes = { "PROD001" }

\* a set of product rows as a sequence in ascending id order
RECURSIVE AscendingByID(_)
AscendingByID(S) ==
    IF S = {} THEN <<>>
    ELSE LET m == CHOOSE p \in S : \A q \in S : p.ID <= q.ID
         IN  <<m>> \o AscendingByID(S \ {m})

\* the codes of the products the request's filter selects, by ascending id
ExpectedListing ==
    LET rows == AscendingByID({ products[i] :
                    i \in MatchingProducts(req.category, req.priceLessThan) })
    IN  [i \in 1..Len(rows) |-> rows[i].Code]

\* the codes of the pages at offsets k*L, (k+1)*L, ... up to offset n, one
\* after the other
RECURSIVE ConsecutivePages(_, _, _, _)
ConsecutivePages(k, L, filter, n) ==
    IF k * L > n THEN <<>>
    ELSE LET ps == ProductsRepository_GetAllProducts(k * L, L, filter,
                                                     "none").products
         IN  [i \in 1..Len(ps) |-> ps[i].Code]
                 \o ConsecutivePages(k + 1, L, filter, n)

\* C15: on an unchanged store a listing returns the filtered products in
\* ascending id order, restricted to the positions offset .. offset+limit-1;
\* the same request again gives the same result; and the pages at offsets
\* 0, L, 2L, ... of one filter return every matching product exactly once.
C15_DeterministicPaging ==
    (req.op = "GET /catalog" /\ resp.status = StatusOK) =>
        LET off  == trace.storeOffset
            L    == trace.storeLimit
            n    == Len(ExpectedListing)
            last == Min2(n, off + L)
        IN  /\ Len(resp.products) = IF last > off THEN last - off ELSE 0
            /\ \A i \in 1..Len(resp.products) :
                  i <= n - off /\ resp.products[i].code = ExpectedListing[off + i]
            /\ resp = ErrorHandler(CatalogHandler_HandleGet(req, req.fault))
            /\ ConsecutivePages(0, L, trace.storeFilter, n) = ExpectedListing

C15_Witness ==
    /\ req.op = "GET /catalog"
    /\ resp.status = StatusOK
    /\ Len(products) = 4
    /\ req.category = ""
    /\ req.priceLessThan = <<>>
    /\ trace.storeOffset = 1
    /\ trace.storeLimit = 2
    /\ resp.products[1].code = "PROD002"
    /\ resp.products[2].code = "PROD003"
    /\ resp.total = 4

\* the stored categories as the response shows them, in the order of the
\* table, which is the order of their creation
StoredCategoryList ==
    [i \in 1..Len(categories) |->
        [code |-> categories[i].Code, name |-> categories[i].Name]]

\* C18 as stated: a successful listing of the categories is the stored
\* categories in insertion order.
C18_Original ==
    (req.op = "GET /categories" /\ req.fault = "none") =>
        /\ resp.status = StatusOK
        /\ resp.categories = StoredCategoryList

\* C18: listCategories returns every stored category exactly once, in the
\* order the store returns the rows, which need not be the order of
\* insertion; with no category stored it returns the empty list with
\* status 200.
C18_EveryCategoryOnce ==
    (req.op = "GET /categories" /\ req.fault = "none") =>
        /\ resp.status = StatusOK
        /\ Len(resp.categories) = Len(categories)
        /\ \A i \in 1..Len(categories) :
              Cardinality({ k \in 1..Len(resp.categories) :
                              resp.categories[k] = StoredCategoryList[i] }) = 1
        /\ categories = <<>> => resp.categories = <<>>

C18_Witness ==
    /\ req.op = "GET /categories"
    /\ resp.status = StatusOK
    /\ Len(categories) = 3
    /\ Len(resp.categories) = 3
    /\ resp.categories[1] = StoredCategoryList[3]
    /\ resp.categories[3] = StoredCategoryList[1]

\* the codes that are empty or consist of whitespace only
BlankCodes == { "", " " }

\* C19 as stated: GetProductByCode with an empty or blank code returns
\* InvalidInput and does not query the store.
C19_Original ==
    (req.op = "GET /catalog/{code}" /\ req.code \in BlankCodes) =>
        /\ trace.svcErr = ErrInvalidInput
        /\ trace.repoCalls = <<>>

\* C19: GetProductByCode with the empty code returns InvalidInput and does
\* not query the store; a code that is not empty, a whitespace-only code
\* included, is looked up in the store, and yields NotFound when the store
\* answers that no product has it.
C19_EmptyCodeNotLookedUp ==
    req.op = "GET /catalog/{code}" =>
        /\ req.code = "" =>
              /\ trace.svcErr = ErrInvalidInput
              /\ trace.repoCalls = <<>>
              /\ trace.queries = <<>>
              /\ resp.status = 400
        /\ req.code # "" =>
              /\ trace.repoCalls = <<"GetProductByCode">>
              /\ trace.queries = <<"find">>
        /\ (req.code \in BlankCodes \ {""} /\ req.fault = "none"
              /\ req.code \notin StoredCodes) =>
              /\ trace.svcErr = ErrNotFound
              /\ resp.status = 404

C19_Witness ==
    /\ req.op = "GET /catalog/{code}"
    /\ req.code = " "
    /\ trace.repoCalls = <<"GetProductByCode">>
    /\ trace.svcErr = ErrNotFound
    /\ resp.status = 404

\* the errors HandleError has no case for
UnclassifiedErrors == AllErrors \ (DomainErrors \cup { ErrRecordNotFound })

\* C20: the response to an unclassified error does not depend on the
\* error: HandleError answers any two unclassified errors, whatever their
\* texts, with the identical status 500 and the identical body
\* internal_error / "An internal error occurred", and neither the text nor
\* the kind of the error appears in the response.
C20_InternalErrorIsOpaque ==
    trace.err \in UnclassifiedErrors =>
        /\ \A other \in UnclassifiedErrors :
              other.text # trace.err.text => HandleError(other) = resp
        /\ resp.status = 500
        /\ resp.code = "internal_error"
        /\ resp.message = "An internal error occurred"
        /\ resp.message # trace.err.text
        /\ resp.code # trace.err.name

C20_Witness ==
    /\ req.op = "HandleError"
    /\ trace.err = ErrAdHoc
    /\ resp = HandleError(ErrDuplicateKey)
    /\ ErrAdHoc.text # ErrDuplicateKey.text
    /\ resp.status = 500

\* a request that went through the production server
ViaServer == req.method # ""

\* C16: every response of the production server carries X-Request-ID: the
\* request's own value when the request has a non-empty one, else a newly
\* generated non-empty identifier; for success responses, for the error
\* responses of HandleError, for the 500 of the panic recovery (and for the
\* mux's own 404).
C16_RequestIDOnEveryResponse ==
    ViaServer =>
        /\ hdr # ""
        /\ req.requestID # "" => hdr = req.requestID
        /\ req.requestID = "" => (hdr = req.uuid /\ req.uuid # "")
        /\ req.op = "panic" => resp.status = 500

C16_Witness ==
    /\ ViaServer
    /\ req.op = "panic"
    /\ req.requestID = "req-123"
    /\ hdr = "req-123"
    /\ resp.status = 500
    /\ resp.code = "internal_error"

\* the endpoints of the API: method, path, handler
Endpoints ==
    { <<"GET", "/catalog", "CatalogHandler.HandleGet">>,
      <<"GET", "/catalog/{code}", "CatalogHandler.HandleGetByCode">>,
      <<"GET", "/categories", "CategoriesHandler.HandleGet">>,
      <<"POST", "/categories", "CategoriesHandler.HandlePost">> }

\* the same request sent to the other of the two prefixes
OtherPrefix(r) == [r EXCEPT !.prefix = IF r.prefix = "" THEN "/v1" ELSE ""]

\* C17: each of the four endpoints is registered under /v1 and unprefixed,
\* and a request served under one of the two prefixes is served, on the
\* same store content, by the same handler with the same status and body
\* (and the same effect on the store) under the other.
C17_PrefixEquivalence ==
    [][ (req'.method # "" /\ req'.prefix \in { "", "/v1" }) =>
          /\ \A e \in Endpoints : \A p \in { "", "/v1" } :
                ServeMux(e[1], p, e[2], "PROD001") = e[3]
          /\ ServeMux(req'.method, req'.prefix, req'.path, req'.code)
                = ServeMux(req'.method, OtherPrefix(req').prefix, req'.path,
                           req'.code)
          /\ \E w \in Server(OtherPrefix(req')) :
                /\ w.op = req'.op
                /\ w.resp = resp'
                /\ w.table = categories' ]_vars

C17_Witness ==
    /\ ViaServer
    /\ req.op = "GET /catalog/{code}"
    /\ req.prefix = "/v1"
    /\ req.code = "PROD001"
    /\ resp.status = StatusOK
    /\ resp.detail # Nil

\* C21: no operation is retried: a request calls the store adapter at most
\* once; a failure of that call (other than the store's answer that no
\* record matches, which is NotFound) is what the service returns and is
\* answered 500; in GetAllProducts a failed count query ends the operation
\* before the page query.
C21_NoRetry ==
    /\ Len(trace.repoCalls) <= 1
    /\ Len(trace.queries) <= 2
    /\ trace.repoErr \notin { NoError, ErrRecordNotFound } =>
          /\ trace.svcErr = trace.repoErr
          /\ trace.err = trace.repoErr
          /\ resp.status = 500
    /\ (req.op = "GET /catalog" /\ trace.repoCalls # <<>>) =>
          trace.queries = IF req.fault = "count" THEN <<"count">>
                          ELSE <<"count", "find">>
    /\ req.op \in { "GET /catalog/{code}", "GET /categories",
                    "POST /categories" } => Len(trace.queries) <= 1

C21_Witness ==
    /\ req.op = "GET /catalog"
    /\ req.fault = "count"
    /\ trace.repoCalls = <<"GetAllProducts">>
    /\ trace.queries = <<"count">>
    /\ trace.err = ErrConnection
    /\ resp.status = 500

\* C22: no request changes the products or the variants; the three reading
\* operations leave the categories unchanged; createCategory changes the
\* categories only by adding one row after the existing ones, which stay
\* as they are.
C22_OnlyCategoryCreationWrites ==
    [][ /\ products' = products
        /\ variants' = variants
        /\ req'.op \in { "GET /catalog", "GET /catalog/{code}",
                         "GET /categories" } => categories' = categories
        /\ categories' # categories =>
              /\ req'.op = "POST /categories"
              /\ resp'.status = StatusCreated
              /\ Len(categories') = Len(categories) + 1
              /\ SubSeq(categories', 1, Len(categories)) = categories ]_vars

C22_Witness ==
    /\ req.op = "POST /categories"
    /\ resp.status = StatusCreated
    /\ Len(categories) = 3
    /\ SubSeq(categories, 1, 2) = SeedCategories
    /\ products = SeedProducts
    /\ variants = SeedVariants

\* C23: HandleError answers the store's raw record-not-found error
\* (gorm.ErrRecordNotFound) with status 404, code not_found and message
\* "Resource not found", the response it gives to the domain error
\* NotFound.
C23_RawRecordNotFoundIs404 ==
    trace.err = ErrRecordNotFound =>
        /\ resp.status = 404
        /\ resp.code = "not_found"
        /\ resp.message = "Resource not found"
        /\ resp = HandleError(ErrNotFound)

C23_Witness ==
    /\ req.op = "HandleError"
    /\ req.err = ErrRecordNotFound
    /\ resp.status = 404
    /\ resp.code = "not_found"

\* C24: POST /categories with a body that is not decodable JSON is answered
\* 400 invalid_input "Invalid input provided", the generic InvalidInput and
\* not InvalidCategoryInput, and neither the category service nor the store
\* is invoked.
C24_UndecodableBody ==
    (req.op = "POST /categories" /\ ~req.body.valid) =>
        /\ trace.err = ErrInvalidInput
        /\ trace.err # ErrInvalidCategoryInput
        /\ resp.status = 400
        /\ resp.code = "invalid_input"
        /\ resp.message = "Invalid input provided"
        /\ trace.svcCalls = <<>>
        /\ trace.repoCalls = <<>>
        /\ trace.queries = <<>>

C24_Witness ==
    /\ req.op = "POST /categories"
    /\ ~req.body.valid
    /\ resp.status = 400
    /\ resp.message = "Invalid input provided"
    /\ categories = SeedCategories

OffsetInvalid ==
    req.offset # <<>>
    /\ (~IsInteger(req.offset) \/ IntegerValue[req.offset] < 0)

LimitInvalid == req.limit # <<>> /\ ~IsInteger(req.limit)

PriceInvalid ==
    req.priceLessThan # <<>>
    /\ (~IsNumber(req.priceLessThan) \/ PriceValue[req.priceLessThan] < 0)

\* the error of the first invalid parameter in the order offset, limit,
\* priceLessThan
FirstInvalid ==
    IF OffsetInvalid THEN ErrInvalidOffset
    ELSE IF LimitInvalid THEN ErrInvalidLimit
    ELSE IF ~IsNumber(req.priceLessThan) THEN ErrInvalidPrice
    ELSE ErrNegativePrice

\* C25 as stated: with an invalid parameter the response reports the first
\* invalid one in the order offset, limit, priceLessThan, and no service
\* and no store call has been made.
C25_Original ==
    (req.op = "GET /catalog"
        /\ (OffsetInvalid \/ LimitInvalid \/ PriceInvalid)) =>
        /\ trace.err = FirstInvalid
        /\ trace.svcCalls = <<>>
        /\ trace.repoCalls = <<>>

\* C25: GET /catalog validates offset, limit, priceLessThan in that order
\* and reports the first invalid one; with any of them invalid neither
\* ListProducts nor the store is called. The service's ValidatePagination
\* is called once offset and limit are accepted, hence before an invalid
\* price is rejected; it is not called when offset or limit is invalid.
C25_ValidationOrder ==
    (req.op = "GET /catalog"
        /\ (OffsetInvalid \/ LimitInvalid \/ PriceInvalid)) =>
        /\ trace.err = FirstInvalid
        /\ resp.status = 400
        /\ resp.message = FirstInvalid.text
        /\ trace.repoCalls = <<>>
        /\ trace.queries = <<>>
        /\ trace.svcCalls = IF OffsetInvalid \/ LimitInvalid THEN <<>>
                            ELSE <<"ValidatePagination">>

C25_Witness ==
    /\ req.op = "GET /catalog"
    /\ req.offset = <<"x">>
    /\ req.limit = <<"1", ".", "5">>
    /\ req.priceLessThan = <<"a", "b">>
    /\ trace.err = ErrInvalidOffset
    /\ resp.status = 400

\* the stored products the request's category filter lets through
CategoryPasses(p) == req.category = "" \/ InCategory(p, req.category)

\* C26: the price filter is strict: a product whose price equals
\* priceLessThan is neither listed nor counted in total; priceLessThan=0 is
\* an active filter, which with no negative price stored returns no
\* product and total 0, unlike an omitted priceLessThan.
C26_StrictPriceFilter ==
    (req.op = "GET /catalog" /\ resp.status = StatusOK
        /\ IsNumber(req.priceLessThan)) =>
        LET threshold == PriceValue[req.priceLessThan]
        IN  /\ trace.storeFilter.PriceLessThan # Nil
            /\ \A k \in 1..Len(resp.products) :
                  resp.products[k].price < threshold
            /\ \A i \in 1..Len(products) :
                  Hundredths(products[i].Price) = threshold =>
                      products[i].Code \notin ListedCodes
            /\ resp.total =
                  Cardinality({ i \in 1..Len(products) :
                                  /\ CategoryPasses(products[i])
                                  /\ Hundredths(products[i].Price)
                                         < threshold })
            /\ threshold = 0 => (resp.products = <<>> /\ resp.total = 0)

C26_Witness ==
    /\ WholeSetListed
    /\ products = SeedProducts
    /\ req.category = ""
    /\ req.priceLessThan = <<"1", "1">>
    /\ resp.total = 2
    /\ ListedCodes = { "PROD001", "PROD003" }

\* the request's price filter lets the product through
PricePasses(p) ==
    req.priceLessThan = <<>> \/ BelowThreshold(p, req.priceLessThan)

\* C27: a product without category is listed, with no category field, by
\* every listing that has no category filter (subject to the price
\* filter), and is neither listed nor counted by a listing with a
\* non-empty category filter; in list and detail responses the category
\* field is present exactly when the stored product has a category.
C27_ProductWithoutCategory ==
    /\ (req.op = "GET /catalog" /\ resp.status = StatusOK) =>
          /\ \A k \in 1..Len(resp.products) :
                resp.products[k].category # Nil
                    <=> StoredProduct(resp.products[k].code).CategoryID # Nil
          /\ req.category # "" =>
                /\ \A k \in 1..Len(resp.products) :
                      StoredProduct(resp.products[k].code).CategoryID # Nil
                /\ resp.total =
                      Cardinality({ i \in 1..Len(products) :
                                      /\ products[i].CategoryID # Nil
                                      /\ InCategory(products[i], req.category)
                                      /\ PricePasses(products[i]) })
          /\ (req.category = "" /\ WholeSetListed) =>
                \A i \in 1..Len(products) :
                    (products[i].CategoryID = Nil /\ PricePasses(products[i]))
                        => products[i].Code \in ListedCodes
    /\ (req.op = "GET /catalog/{code}" /\ resp.status = StatusOK) =>
          /\ resp.detail # Nil
          /\ resp.detail[1].category # Nil
                <=> StoredProduct(req.code).CategoryID # Nil

C27_Witness ==
    /\ WholeSetListed
    /\ products = SeedProducts
    /\ req.category = ""
    /\ req.priceLessThan = <<>>
    /\ Len(resp.products) = 4
    /\ resp.products[3].code = "PROD003"
    /\ resp.products[3].category = Nil
    /\ resp.products[1].category # Nil

\* the body middleware.Recovery writes
RecoveredResponse(r) ==
    /\ r.status = 500
    /\ r.kind = "error"
    /\ r.code = "internal_error"
    /\ r.message = "An internal error occurred"

\* C28: a request whose handler panics before writing is answered by the
\* production chain with status 500 and the body internal_error / "An
\* internal error occurred" (under its X-Request-ID); the panic ends with
\* that request: nothing is stored, and the server goes back to waiting
\* for requests with the store as it was before the request.
C28_PanicIsRecovered ==
    [][ /\ req'.op = "panic" =>
              /\ RecoveredResponse(resp')
              /\ hdr' # ""
              /\ trace'.svcCalls = <<>>
              /\ trace'.repoCalls = <<>>
              /\ <<categories', products', variants'>>
                    = <<categories, products, variants>>
        /\ req.op = "panic" =>
              /\ req' = BlankRequest
              /\ <<categories', products', variants', created'>>
                    = <<categories, products, variants, created>>
              /\ resp' = BlankResponse
              /\ trace' = BlankTrace ]_vars

C28_Witness ==
    /\ req.op = "panic"
    /\ req.panics
    /\ req.method = "POST"
    /\ req.prefix = "/v1"
    /\ RecoveredResponse(resp)
    /\ categories = SeedCategories

Max2(a, b) == IF a > b THEN a ELSE b

\* C29 as stated: in every listing response the number of products is
\* min(limit, max(0, total - offset)), also when another client inserts or
\* deletes products while the request is served.
C29_PageConsistentWithTotal ==
    \A p \in Requests :
        (procs[p].op = "GET /catalog" /\ procs[p].pc = "done") =>
            Len(procs[p].resp.products)
                = Min2(procs[p].limit,
                       Max2(0, procs[p].resp.total - procs[p].offset))

\* the create requests in flight for the code c that were received while
\* no category had that code
FreshCreates(c) ==
    { p \in Requests :
        /\ procs[p].op = "POST /categories"
        /\ procs[p].fresh
        /\ procs[p].body.code = Ptr(c) }

Answered(S, status) == { p \in S : procs[p].resp.status = status }

\* C30: after any interleaving of concurrent createCategory requests no
\* two stored categories have the same code; of the concurrent requests
\* that submit the same new code with valid names exactly one is answered
\* 201 and stored, every other one is answered 500 and stores nothing.
C30_ConcurrentCreatesKeepCodesUnique ==
    /\ \A i, j \in 1..Len(categories) :
          categories[i].Code = categories[j].Code => i = j
    /\ \A c \in { "SHOES", "BAGS" } :
          LET G == FreshCreates(c)
          IN  (G # {} /\ \A p \in G : procs[p].pc = "done") =>
                  /\ Cardinality(Answered(G, StatusCreated)) = 1
                  /\ Answered(G, StatusInternalServerError)
                        = G \ Answered(G, StatusCreated)
                  /\ Cardinality({ i \in 1..Len(categories) :
                                     categories[i].Code = c }) = 1
    /\ Len(categories) = Len(SeedCategories)
          + Cardinality({ p \in Requests :
                            procs[p].resp.status = StatusCreated })

C30_Witness ==
    /\ Cardinality(FreshCreates("BAGS")) = 2
    /\ \A p \in FreshCreates("BAGS") : procs[p].pc = "done"
    /\ procs[1].resp.status = StatusInternalServerError
    /\ procs[2].resp.status = StatusCreated
    /\ Len(categories) = 3

====
